---- MODULE Spec2Model ----
(***************************************************************************)
(* The hourly power-allocation engine of the solar household simulator     *)
(* (src/main_ux_appliance_status.py), with the front-end handlers that     *)
(* configure the household and start a simulation.                         *)
(*                                                                         *)
(* Energies are integers in Wh.  The generation table holds tenths, and    *)
(* panel capacities are multiples of 10, so capacity * fraction is exact   *)
(* (it is exact in the program's floating point for these values too).     *)
(***************************************************************************)
EXTENDS Integers, Sequences, FiniteSets, TLC

VARIABLES
    household,           \* self.household: components, appliances, settings
    simulation_results,  \* self.simulation_results (<<>> before the first run)
    appliance_list,      \* self.appliance_list: the rows of the displayed list
    file,                \* content of the configuration file on disk
    message,             \* the dialog the last handler showed ("none": no dialog)
    ops,                 \* number of entry-point invocations so far
    pc,                  \* position of the running simulation ("idle": none)
    num_days,            \* simulate_days: its argument
    day,                 \* simulate_days: loop variable
    hour,                \* simulate_days: loop variable
    battery_charge,      \* simulate_days: charge carried from hour to hour
    total_generation,    \* simulate_days: panel capacity
    results,             \* simulate_days: records appended so far
    generation,          \* simulate_hour: generation of this hour
    available_power,     \* simulate_hour: remaining budget of this hour
    power_used,          \* simulate_hour
    appliances_running,  \* simulate_hour: names admitted so far this hour
    order,               \* simulate_hour: the sorted() list, as indices into
                         \*   household.appliances (the same objects, sorted)
    idx                  \* simulate_hour: position of the for loop in order

uiVars   == <<simulation_results, appliance_list, file, message, ops>>
daysVars == <<num_days, day, hour, battery_charge, total_generation, results>>
hourVars == <<generation, available_power, power_used, appliances_running, order, idx>>
vars     == <<household, uiVars, pc, daysVars, hourVars>>

(***************************************************************************)
(* Bounds of the model.                                                    *)
(***************************************************************************)
MaxOps        == 4   \* entry-point invocations explored
MaxAppliances == 2   \* appliances in the household
MaxDays       == 2   \* num_days of a direct simulate_days call: 0..MaxDays

(***************************************************************************)
(* Program constants.                                                      *)
(***************************************************************************)
NumDays     == 3     \* run_simulation: self.simulate_days(3)
HoursPerDay == 24    \* simulate_days: for hour in range(24)

\* QTime, to the minute.
QTime(h, m) == [h |-> h, m |-> m]
QTimeHour(t) == t.h

None == [is_none |-> TRUE]

\* SolarComponent(name, capacity)
SolarComponent(name, capacity) == [name |-> name, capacity |-> capacity]

\* Appliance.__init__
Appliance(name, power, priority, start_time, end_time, min_runtime) ==
    [name |-> name, power |-> power, priority |-> priority,
     start_time |-> start_time, end_time |-> end_time,
     min_runtime |-> min_runtime, daily_runtime |-> <<>>]

\* a reset that leaves the counters alone
reset_daily_runtime_skipped(a, d) == a

\* a reset that forgets the counters of the other days
reset_daily_runtime_only_day(a, d) == [a EXCEPT !.daily_runtime = (d :> 0)]

\* Appliance.reset_daily_runtime: self.daily_runtime[day] = 0
reset_daily_runtime(a, d) ==
    [a EXCEPT !.daily_runtime = (d :> 0) @@ a.daily_runtime]

\* Appliance.get_daily_runtime: self.daily_runtime.get(day, 0)
get_daily_runtime(a, d) ==
    IF d \in DOMAIN a.daily_runtime THEN a.daily_runtime[d] ELSE 0

\* add_runtime assigning the hours instead of adding them
add_runtime_assigned(a, d, hours) ==
    [a EXCEPT !.daily_runtime = (d :> hours) @@ a.daily_runtime]

\* Appliance.add_runtime
add_runtime(a, d, hours) ==
    LET dr == IF d \in DOMAIN a.daily_runtime
              THEN a.daily_runtime
              ELSE (d :> 0) @@ a.daily_runtime
    IN  [a EXCEPT !.daily_runtime = [dr EXCEPT ![d] = dr[d] + hours]]

\* SolarHousehold.__init__
SolarHousehold ==
    [solar_panel |-> None, battery |-> None, charge_controller |-> None,
     inverter |-> None, appliances |-> <<>>,
     sunrise |-> QTime(6, 0), sunset |-> QTime(20, 0), system_voltage |-> 12]

\* MainWindow.solar_generation_data, in tenths
solar_generation_data ==
    (6 :> 0) @@ (7 :> 1) @@ (8 :> 3) @@ (9 :> 5) @@ (10 :> 7) @@ (11 :> 8) @@
    (12 :> 9) @@ (13 :> 10) @@ (14 :> 9) @@ (15 :> 8) @@ (16 :> 7) @@
    (17 :> 5) @@ (18 :> 3) @@ (19 :> 1) @@ (20 :> 0)

\* the table lookup with a default of 1.0 instead of 0
generation_percentage_default_one(h) ==
    IF h \in DOMAIN solar_generation_data THEN solar_generation_data[h] ELSE 10

\* self.solar_generation_data.get(hour, 0), in tenths
generation_percentage(h) ==
    IF h \in DOMAIN solar_generation_data THEN solar_generation_data[h] ELSE 0

\* the generation of the hour two hours later
GenerationTwoHoursEarly(tg, h) == (tg * generation_percentage(h + 2)) \div 10

\* generation = total_generation * generation_percentage
Generation(tg, h) == (tg * generation_percentage(h)) \div 10

Min(x, y) == IF x <= y THEN x ELSE y

(***************************************************************************)
(* The persistence codec: to_dict and from_dict of the three classes.  A   *)
(* JSON object is a record, JSON null is JsonNull, and a time text         *)
(* "HH:mm" is the sequence of its four digits (the empty sequence is the   *)
(* empty string).                                                          *)
(***************************************************************************)
JsonNull == [is_null |-> TRUE]

\* the QTime that fromString returns for a text it cannot parse
InvalidQTime == [h |-> -1, m |-> -1]

QTimeIsValid(t) == t.h \in 0..23 /\ t.m \in 0..59

\* QTime.toString("HH:mm")
toString(t) ==
    IF QTimeIsValid(t)
    THEN <<t.h \div 10, t.h % 10, t.m \div 10, t.m % 10>>
    ELSE <<>>

\* QTime.fromString(text, "HH:mm")
fromString(text) ==
    IF Len(text) = 4 /\ \A k \in 1..4 : text[k] \in 0..9
    THEN LET h == 10 * text[1] + text[2]
             m == 10 * text[3] + text[4]
         IN  IF h < 24 /\ m < 60 THEN QTime(h, m) ELSE InvalidQTime
    ELSE InvalidQTime

\* truth value of a JSON value in "... if data[key] else None"
Truthy(v) == v # JsonNull /\ DOMAIN v # {}

ComponentKeys == {"name", "capacity"}
ApplianceKeys == {"name", "power", "priority", "start_time", "end_time", "min_runtime"}
HouseholdKeys == {"solar_panel", "battery", "charge_controller", "inverter",
                  "appliances", "sunrise", "sunset", "system_voltage"}

\* SolarComponent.to_dict
SolarComponent_to_dict(c) == [name |-> c.name, capacity |-> c.capacity]

\* SolarComponent.from_dict
SolarComponent_from_dict(data) == SolarComponent(data.name, data.capacity)

\* Appliance.to_dict that writes the runtime counters too
Appliance_to_dict_with_runtime(a) ==
    [name |-> a.name, power |-> a.power, priority |-> a.priority,
     start_time |-> toString(a.start_time), end_time |-> toString(a.end_time),
     min_runtime |-> a.min_runtime, daily_runtime |-> a.daily_runtime]

\* Appliance.to_dict
Appliance_to_dict(a) ==
    [name |-> a.name, power |-> a.power, priority |-> a.priority,
     start_time |-> toString(a.start_time), end_time |-> toString(a.end_time),
     min_runtime |-> a.min_runtime]

\* Appliance.from_dict
Appliance_from_dict(data) ==
    Appliance(data.name, data.power, data.priority,
              fromString(data.start_time), fromString(data.end_time),
              data.min_runtime)

\* "x.to_dict() if x else None" of SolarHousehold.to_dict
ComponentOrNull(c) == IF c # None THEN SolarComponent_to_dict(c) ELSE JsonNull

\* SolarHousehold.to_dict
SolarHousehold_to_dict(h) ==
    [solar_panel       |-> ComponentOrNull(h.solar_panel),
     battery           |-> ComponentOrNull(h.battery),
     charge_controller |-> ComponentOrNull(h.charge_controller),
     inverter          |-> ComponentOrNull(h.inverter),
     appliances        |-> [i \in 1..Len(h.appliances) |-> Appliance_to_dict(h.appliances[i])],
     sunrise           |-> toString(h.sunrise),
     sunset            |-> toString(h.sunset),
     system_voltage    |-> h.system_voltage]

\* "SolarComponent.from_dict(v) if v else None" of SolarHousehold.from_dict
ComponentOrNone(v) == IF Truthy(v) THEN SolarComponent_from_dict(v) ELSE None

\* whether SolarHousehold.from_dict raises on data: a key lookup fails
from_dict_raises(data) ==
    \/ ~(HouseholdKeys \subseteq DOMAIN data)
    \/ \E k \in {"solar_panel", "battery", "charge_controller", "inverter"} :
          Truthy(data[k]) /\ ~(ComponentKeys \subseteq DOMAIN data[k])
    \/ \E i \in 1..Len(data.appliances) :
          ~(ApplianceKeys \subseteq DOMAIN data.appliances[i])

\* SolarHousehold.from_dict, where it does not raise
SolarHousehold_from_dict(data) ==
    [solar_panel       |-> ComponentOrNone(data.solar_panel),
     battery           |-> ComponentOrNone(data.battery),
     charge_controller |-> ComponentOrNone(data.charge_controller),
     inverter          |-> ComponentOrNone(data.inverter),
     appliances        |-> [i \in 1..Len(data.appliances) |->
                               Appliance_from_dict(data.appliances[i])],
     sunrise           |-> fromString(data.sunrise),
     sunset            |-> fromString(data.sunset),
     system_voltage    |-> data.system_voltage]

\* SolarHousehold.total_power_consumption counting the appliances
total_power_consumption_count(h) == Len(h.appliances)

\* sum(appliance.power for appliance in appliances[1..n])
RECURSIVE SumPower(_, _)
SumPower(apps, n) == IF n = 0 THEN 0 ELSE SumPower(apps, n - 1) + apps[n].power

\* SolarHousehold.total_power_consumption
total_power_consumption(h) == SumPower(h.appliances, Len(h.appliances))

\* the text of a row of the displayed appliance list (lines 382 and 495)
ItemText(a) ==
    [name |-> a.name, power |-> a.power, priority |-> a.priority,
     start_time |-> toString(a.start_time), end_time |-> toString(a.end_time),
     min_runtime |-> a.min_runtime]

\* the displayed list after clear() and one addItem per appliance
ItemTexts(apps) == [i \in 1..Len(apps) |-> ItemText(apps[i])]

\* what a configuration file can hold besides a configuration record
NoFile  == [chosen |-> FALSE]     \* no file is chosen in the dialog
NotJson == [json |-> FALSE]       \* a text on which json.load raises

\* a sort key that ranks the labels High, Medium, Low
PriorityKeyByRank(p) ==
    CASE p = "High"   -> 1
      [] p = "Medium" -> 2
      [] p = "Low"    -> 3

(***************************************************************************)
(* sorted(self.household.appliances, key=lambda x: x.priority): a stable   *)
(* sort on the priority string.  Python compares strings by code point;    *)
(* the three labels differ in their first character.                       *)
(***************************************************************************)
PriorityKey(p) ==
    CASE p = "High"   -> 72    \* ord("H")
      [] p = "Low"    -> 76    \* ord("L")
      [] p = "Medium" -> 77    \* ord("M")

\* an insertion in front of the indices with an equal key (not stable)
RECURSIVE InsertByKeyBeforeEqual(_, _, _)
InsertByKeyBeforeEqual(apps, s, i) ==
    IF s = <<>> THEN <<i>>
    ELSE IF PriorityKey(apps[i].priority) <= PriorityKey(apps[Head(s)].priority)
         THEN <<i>> \o s
         ELSE <<Head(s)>> \o InsertByKeyBeforeEqual(apps, Tail(s), i)

\* insert index i behind every index whose key is <= its own (stable)
RECURSIVE InsertByKey(_, _, _)
InsertByKey(apps, s, i) ==
    IF s = <<>> THEN <<i>>
    ELSE IF PriorityKey(apps[i].priority) < PriorityKey(apps[Head(s)].priority)
         THEN <<i>> \o s
         ELSE <<Head(s)>> \o InsertByKey(apps, Tail(s), i)

RECURSIVE SortPrefix(_, _)
SortPrefix(apps, n) ==
    IF n = 0 THEN <<>> ELSE InsertByKey(apps, SortPrefix(apps, n - 1), n)

\* the appliances in declaration order (no sort)
DeclarationOrder(apps) == [i \in 1..Len(apps) |-> i]

SortedByPriority(apps) == SortPrefix(apps, Len(apps))

(***************************************************************************)
(* simulate_hour, the body of its for loop.                                *)
(***************************************************************************)
\* the window test without the branch for a window that wraps past midnight
InWindowNoWrap(start_hour, end_hour, h) == start_hour <= h /\ h < end_hour

\* the window test with the end hour included
InWindowInclusive(start_hour, end_hour, h) ==
    \/ (start_hour <= h /\ h <= end_hour)
    \/ (end_hour < start_hour /\ (h >= start_hour \/ h <= end_hour))

\* the window test of line 440
InWindow(start_hour, end_hour, h) ==
    \/ (start_hour <= h /\ h < end_hour)
    \/ (end_hour < start_hour /\ (h >= start_hour \/ h < end_hour))

\* the admission test with the power comparison reversed
CanAdmitReversed(a, avail, d) ==
    avail <= a.power /\ get_daily_runtime(a, d) < a.min_runtime

\* the admission test letting an appliance run once more at its budget
CanAdmitAtBudget(a, avail, d) ==
    avail >= a.power /\ get_daily_runtime(a, d) <= a.min_runtime

\* the admission test without the comparison of the power with the budget
CanAdmitAnyPower(a, avail, d) == get_daily_runtime(a, d) < a.min_runtime

\* the admission test without the runtime budget
CanAdmitNoBudget(a, avail, d) == avail >= a.power

\* the admission test of line 441
CanAdmit(a, avail, d) ==
    avail >= a.power /\ get_daily_runtime(a, d) < a.min_runtime

\* the loop body charging an hour of runtime for a refusal for lack of power
ConsiderStepRefusalCounts(acc, i, h, d) ==
    LET a == acc.appliances[i]
    IN  IF /\ InWindow(QTimeHour(a.start_time), QTimeHour(a.end_time), h)
           /\ CanAdmit(a, acc.available_power, d)
        THEN [available_power    |-> acc.available_power - a.power,
              power_used         |-> acc.power_used + a.power,
              appliances_running |-> Append(acc.appliances_running, a.name),
              appliances         |-> [acc.appliances EXCEPT ![i] = add_runtime(a, d, 1)]]
        ELSE IF /\ InWindow(QTimeHour(a.start_time), QTimeHour(a.end_time), h)
                /\ acc.available_power < a.power
        THEN [acc EXCEPT !.appliances[i] = add_runtime(a, d, 1)]
        ELSE acc

\* the loop body putting the name of an admitted appliance in front
ConsiderStepPrepend(acc, i, h, d) ==
    LET a == acc.appliances[i]
    IN  IF /\ InWindow(QTimeHour(a.start_time), QTimeHour(a.end_time), h)
           /\ CanAdmit(a, acc.available_power, d)
        THEN [available_power    |-> acc.available_power - a.power,
              power_used         |-> acc.power_used + a.power,
              appliances_running |-> <<a.name>> \o acc.appliances_running,
              appliances         |-> [acc.appliances EXCEPT ![i] = add_runtime(a, d, 1)]]
        ELSE acc

\* the loop body without the deduction from available_power
ConsiderStepNoDeduction(acc, i, h, d) ==
    LET a == acc.appliances[i]
    IN  IF /\ InWindow(QTimeHour(a.start_time), QTimeHour(a.end_time), h)
           /\ CanAdmit(a, acc.available_power, d)
        THEN [available_power    |-> acc.available_power,
              power_used         |-> acc.power_used + a.power,
              appliances_running |-> Append(acc.appliances_running, a.name),
              appliances         |-> [acc.appliances EXCEPT ![i] = add_runtime(a, d, 1)]]
        ELSE acc

\* One pass of the loop body for appliance apps[i].  acc holds the locals
\* the loop changes and the appliance list (the runtime counters).
ConsiderStep(acc, i, h, d) ==
    LET a == acc.appliances[i]
    IN  IF /\ InWindow(QTimeHour(a.start_time), QTimeHour(a.end_time), h)
           /\ CanAdmit(a, acc.available_power, d)
        THEN [available_power    |-> acc.available_power - a.power,
              power_used         |-> acc.power_used + a.power,
              appliances_running |-> Append(acc.appliances_running, a.name),
              appliances         |-> [acc.appliances EXCEPT ![i] = add_runtime(a, d, 1)]]
        ELSE acc

\* the end-of-hour charge without the cap at the battery capacity
EndChargeUncapped(avail, capacity) == avail

\* the end-of-hour charge, line 447
EndCharge(avail, capacity) == Min(avail, capacity)

\* the for loop of simulate_hour from position k of the sorted list ord
RECURSIVE LoopFrom(_, _, _, _, _)
LoopFrom(acc, ord, k, h, d) ==
    IF k > Len(ord) THEN acc
    ELSE LoopFrom(ConsiderStep(acc, ord[k], h, d), ord, k + 1, h, d)

\* simulate_hour as a function of its arguments and the household: the record
\* it returns and the appliance list it leaves (the runtime counters)
simulate_hour(hh, h, d, charge, tg) ==
    LET gen == Generation(tg, h)
        acc == [available_power |-> gen + charge, power_used |-> 0,
                appliances_running |-> <<>>, appliances |-> hh.appliances]
        fin == LoopFrom(acc, SortedByPriority(hh.appliances), 1, h, d)
    IN  [hour_result |->
             [day |-> d, hour |-> h, generation |-> gen,
              power_used |-> fin.power_used,
              battery_charge |-> EndCharge(fin.available_power, hh.battery.capacity),
              appliances_running |-> fin.appliances_running],
         appliances |-> fin.appliances]

(***************************************************************************)
(* Inputs of the front end.                                                *)
(***************************************************************************)
Text(v) == [ok |-> TRUE, val |-> v]     \* a text that float() accepts
BadText == [ok |-> FALSE, val |-> 0]    \* a text on which float() raises

\* the four capacity texts: panel, battery, charge controller, inverter
ComponentInputs ==
    { <<Text(1000), Text(2000), Text(30), Text(1500)>>,
      <<Text(0),    Text(800),  Text(30), Text(1500)>>,
      <<Text(1000), BadText,    Text(30), Text(1500)>> }

\* the appliance form: name, power text, priority, start, end, min_runtime text
ApplianceInputs ==
    { [name |-> "a", power |-> Text(500), priority |-> "High",
       start_time |-> QTime(8, 0), end_time |-> QTime(18, 0), min_runtime |-> Text(4)],
      [name |-> "b", power |-> Text(500), priority |-> "Medium",
       start_time |-> QTime(8, 30), end_time |-> QTime(12, 0), min_runtime |-> Text(2)],
      [name |-> "c", power |-> Text(800), priority |-> "Low",
       start_time |-> QTime(22, 0), end_time |-> QTime(11, 0), min_runtime |-> Text(2)],
      [name |-> "d", power |-> BadText, priority |-> "Low",
       start_time |-> QTime(0, 0), end_time |-> QTime(0, 0), min_runtime |-> Text(1)],
      [name |-> "e", power |-> Text(500), priority |-> "High",
       start_time |-> QTime(8, 0), end_time |-> QTime(18, 0), min_runtime |-> BadText] }

(***************************************************************************)
(* Initial state: MainWindow.__init__                                      *)
(***************************************************************************)
NoHourLocals ==
    /\ generation' = 0
    /\ available_power' = 0
    /\ power_used' = 0
    /\ appliances_running' = <<>>
    /\ order' = <<>>
    /\ idx' = 0

NoDaysLocals ==
    /\ num_days' = 0
    /\ day' = 0
    /\ hour' = 0
    /\ battery_charge' = 0
    /\ total_generation' = 0
    /\ results' = <<>>

Init ==
    /\ household = SolarHousehold
    /\ simulation_results = <<>>
    /\ appliance_list = <<>>
    /\ file = NoFile
    /\ message = "none"
    /\ ops = 0
    /\ pc = "idle"
    /\ num_days = 0 /\ day = 0 /\ hour = 0 /\ battery_charge = 0
    /\ total_generation = 0 /\ results = <<>>
    /\ generation = 0 /\ available_power = 0 /\ power_used = 0
    /\ appliances_running = <<>> /\ order = <<>> /\ idx = 0

(***************************************************************************)
(* Front-end handlers.  The program is single-threaded: a handler runs     *)
(* only while no simulation is in progress.                                *)
(***************************************************************************)
Idle == pc = "idle" /\ ops < MaxOps

\* number of leading texts that float() accepts
RECURSIVE LeadingOk(_, _)
LeadingOk(texts, k) ==
    IF k > Len(texts) \/ ~texts[k].ok THEN k - 1 ELSE LeadingOk(texts, k + 1)

\* set_components: the four assignments run in order until float() raises
set_components(h, texts) ==
    LET n  == LeadingOk(texts, 1)
        h1 == IF n >= 1 THEN [h  EXCEPT !.solar_panel = SolarComponent("Solar Panel", texts[1].val)] ELSE h
        h2 == IF n >= 2 THEN [h1 EXCEPT !.battery = SolarComponent("Battery", texts[2].val)] ELSE h1
        h3 == IF n >= 3 THEN [h2 EXCEPT !.charge_controller = SolarComponent("Charge Controller", texts[3].val)] ELSE h2
        h4 == IF n >= 4 THEN [h3 EXCEPT !.inverter = SolarComponent("Inverter", texts[4].val)] ELSE h3
    IN  h4

SetComponents ==
    \E texts \in ComponentInputs :
        /\ Idle
        /\ household' = set_components(household, texts)
        /\ message' = IF LeadingOk(texts, 1) = 4 THEN "components_set" ELSE "error_components"
        /\ ops' = ops + 1
        /\ UNCHANGED <<simulation_results, appliance_list, file, pc, daysVars, hourVars>>

\* the number check that forgets the min_runtime text
NumbersOkPowerOnly(in) == in.power.ok

\* whether float() accepts the power text and the min_runtime text
NumbersOk(in) == in.power.ok /\ in.min_runtime.ok

\* the Appliance that add_appliance builds from the form contents in
ApplianceOf(in) ==
    Appliance(in.name, in.power.val, in.priority,
              in.start_time, in.end_time, in.min_runtime.val)

\* add_appliance on the form contents in
add_appliance(in) ==
    /\ Idle
    /\ Len(household.appliances) < MaxAppliances
    /\ IF NumbersOk(in)
       THEN LET appliance == ApplianceOf(in)
            IN  /\ household' = [household EXCEPT !.appliances = Append(@, appliance)]
                /\ appliance_list' = Append(appliance_list, ItemText(appliance))
                /\ message' = "none"
       ELSE /\ household' = household
            /\ appliance_list' = appliance_list
            /\ message' = "error_appliance"
    /\ ops' = ops + 1
    /\ UNCHANGED <<simulation_results, file, pc, daysVars, hourVars>>

AddAppliance == \E in \in ApplianceInputs : add_appliance(in)

RemoveAt(s, i) == SubSeq(s, 1, i - 1) \o SubSeq(s, i + 1, Len(s))

\* remove_appliance on the selected row of the displayed list; row 0 stands
\* for no selected row.  A row beyond the household's list makes line 391
\* raise IndexError before anything is changed.
remove_appliance(row) ==
    /\ Idle
    /\ IF row = 0
       THEN /\ message' = "none"
            /\ UNCHANGED <<household, appliance_list>>
       ELSE IF row > Len(household.appliances)
       THEN /\ message' = "index_error"
            /\ UNCHANGED <<household, appliance_list>>
       ELSE /\ household' = [household EXCEPT !.appliances = RemoveAt(@, row)]
            /\ appliance_list' = RemoveAt(appliance_list, row)
            /\ message' = "none"
    /\ ops' = ops + 1
    /\ UNCHANGED <<simulation_results, file, pc, daysVars, hourVars>>

RemoveAppliance == \E row \in 0..Len(appliance_list) : remove_appliance(row)

(***************************************************************************)
(* simulate_days and simulate_hour, one step per loop iteration.           *)
(***************************************************************************)
\* simulate_days starting from an empty battery
EnterSimulateDaysFromZero(n) ==
    /\ num_days' = n
    /\ results' = <<>>
    /\ battery_charge' = 0
    /\ total_generation' = household.solar_panel.capacity
    /\ day' = 0
    /\ hour' = 0
    /\ pc' = IF 0 < n THEN "reset" ELSE "return"

\* simulate_days with the generation limited by the inverter capacity
EnterSimulateDaysThroughInverter(n) ==
    /\ num_days' = n
    /\ results' = <<>>
    /\ battery_charge' = household.battery.capacity
    /\ total_generation' = Min(household.solar_panel.capacity, household.inverter.capacity)
    /\ day' = 0
    /\ hour' = 0
    /\ pc' = IF 0 < n THEN "reset" ELSE "return"

\* simulate_days, lines 412-416: the locals and the first loop test
EnterSimulateDays(n) ==
    /\ num_days' = n
    /\ results' = <<>>
    /\ battery_charge' = household.battery.capacity
    /\ total_generation' = household.solar_panel.capacity
    /\ day' = 0
    /\ hour' = 0
    /\ pc' = IF 0 < n THEN "reset" ELSE "return"

\* all([solar_panel, battery, charge_controller, inverter])
ComponentsSet(h) ==
    /\ h.solar_panel # None /\ h.battery # None
    /\ h.charge_controller # None /\ h.inverter # None

\* a check of the appliance list that lets the empty list pass
HasAppliancesAlways(h) == TRUE

\* the truth value of self.household.appliances
HasAppliances(h) == h.appliances # <<>>

\* run_simulation: the precondition checks, then simulate_days(3)
RunSimulation ==
    /\ Idle
    /\ ops' = ops + 1
    /\ IF ~ComponentsSet(household)
       THEN /\ message' = "error_no_components"
            /\ UNCHANGED <<household, simulation_results, appliance_list, file, pc, daysVars, hourVars>>
       ELSE IF ~HasAppliances(household)
       THEN /\ message' = "error_no_appliances"
            /\ UNCHANGED <<household, simulation_results, appliance_list, file, pc, daysVars, hourVars>>
       ELSE /\ message' = "none"
            /\ EnterSimulateDays(NumDays)
            /\ UNCHANGED <<household, simulation_results, appliance_list, file, hourVars>>

\* load_configuration.  from_dict runs before the assignment of line 464;
\* update_ui_from_household runs after it and raises AttributeError at the
\* first component that is None, before it touches the displayed list.
LoadConfiguration ==
    /\ Idle
    /\ ops' = ops + 1
    /\ IF file = NoFile
       THEN /\ message' = "none"
            /\ UNCHANGED <<household, appliance_list>>
       ELSE IF file = NotJson \/ from_dict_raises(file)
       THEN /\ message' = "error_load"
            /\ UNCHANGED <<household, appliance_list>>
       ELSE LET h == SolarHousehold_from_dict(file)
            IN  /\ household' = h
                /\ IF ComponentsSet(h)
                   THEN /\ appliance_list' = ItemTexts(h.appliances)
                        /\ message' = "loaded"
                   ELSE /\ appliance_list' = appliance_list
                        /\ message' = "error_load"
    /\ UNCHANGED <<simulation_results, file, pc, daysVars, hourVars>>

\* save_configuration
SaveConfiguration ==
    /\ Idle
    /\ ops' = ops + 1
    /\ file' = SolarHousehold_to_dict(household)
    /\ message' = "saved"
    /\ UNCHANGED <<household, simulation_results, appliance_list, pc, daysVars, hourVars>>

\* simulate_days called with another num_days.  Reading .capacity of an unset
\* battery or panel raises before anything is changed.
SimulateDays ==
    \E n \in 0..MaxDays :
        /\ Idle
        /\ ops' = ops + 1
        /\ message' = "none"
        /\ IF household.solar_panel = None \/ household.battery = None
           THEN UNCHANGED <<household, simulation_results, appliance_list, file, pc, daysVars, hourVars>>
           ELSE /\ EnterSimulateDays(n)
                /\ UNCHANGED <<household, simulation_results, appliance_list, file, hourVars>>

\* the hour loop running one hour too long
MoreHoursOffByOne(h) == h + 1 <= HoursPerDay

\* for hour in range(24): whether another hour follows hour h
MoreHours(h) == h + 1 < HoursPerDay

\* a reset loop that runs on the first day only
reset_all_first_day(apps, d) ==
    IF d = 0 THEN [i \in 1..Len(apps) |-> reset_daily_runtime(apps[i], d)] ELSE apps

\* lines 418-419, and the first test of the hour loop
reset_all(apps, d) == [i \in 1..Len(apps) |-> reset_daily_runtime(apps[i], d)]

\* The hour loop of simulate_days (lines 421-424) from hour h of day d on, as
\* a function: the records appended, the appliance list left (the runtime
\* counters) and the charge carried on.  Each hour's outcome is bound as a
\* value before the next hour is computed.
RECURSIVE HoursFrom(_, _, _, _, _, _)
HoursFrom(apps, hh, d, h, charge, recs) ==
    CHOOSE out \in
        { IF MoreHours(h)
          THEN HoursFrom(r.appliances, hh, d, h + 1, r.hour_result.battery_charge,
                         Append(recs, r.hour_result))
          ELSE [results |-> Append(recs, r.hour_result),
                appliances |-> r.appliances,
                battery_charge |-> r.hour_result.battery_charge] :
            r \in { simulate_hour([hh EXCEPT !.appliances = apps], h, d, charge,
                                  hh.solar_panel.capacity) } } : TRUE

\* The day loop of simulate_days (lines 416-424) from day d on, as a function
RECURSIVE DaysFrom(_, _, _, _, _, _)
DaysFrom(apps, hh, n, d, charge, recs) ==
    IF d >= n
    THEN [results |-> recs, appliances |-> apps]
    ELSE CHOOSE out \in
             { DaysFrom(dd.appliances, hh, n, d + 1, dd.battery_charge,
                        recs \o dd.results) :
                 dd \in { HoursFrom(reset_all(apps, d), hh, d, 0, charge, <<>>) } } : TRUE

\* simulate_days(num_days) on household hh
simulate_days(hh, n) == DaysFrom(hh.appliances, hh, n, 0, hh.battery.capacity, <<>>)

\* the start of a day with the battery recharged to its capacity
ResetDailyRuntimeRecharged ==
    /\ pc = "reset"
    /\ household' = [household EXCEPT !.appliances = reset_all(@, day)]
    /\ hour' = 0
    /\ battery_charge' = household.battery.capacity
    /\ pc' = "hour"
    /\ UNCHANGED <<uiVars, num_days, day, total_generation, results, hourVars>>

\* simulate_days, lines 416-421: the reset loop of a day, then its first hour
ResetDailyRuntime ==
    /\ pc = "reset"
    /\ household' = [household EXCEPT !.appliances = reset_all(@, day)]
    /\ hour' = 0
    /\ pc' = "hour"
    /\ UNCHANGED <<uiVars, num_days, day, battery_charge, total_generation, results, hourVars>>

\* the start of an hour sorting self.household.appliances in place
SimulateHourBeginSortInPlace ==
    /\ pc = "hour"
    /\ generation' = Generation(total_generation, hour)
    /\ available_power' = Generation(total_generation, hour) + battery_charge
    /\ power_used' = 0
    /\ appliances_running' = <<>>
    /\ household' = [household EXCEPT !.appliances =
                        [k \in 1..Len(@) |-> @[SortedByPriority(@)[k]]]]
    /\ order' = [k \in 1..Len(household.appliances) |-> k]
    /\ idx' = 1
    /\ pc' = IF household.appliances = <<>> THEN "end_hour" ELSE "appliance"
    /\ UNCHANGED <<uiVars, daysVars>>

\* simulate_hour, lines 429-436
SimulateHourBegin ==
    /\ pc = "hour"
    /\ generation' = Generation(total_generation, hour)
    /\ available_power' = Generation(total_generation, hour) + battery_charge
    /\ power_used' = 0
    /\ appliances_running' = <<>>
    /\ order' = SortedByPriority(household.appliances)
    /\ idx' = 1
    /\ pc' = IF household.appliances = <<>> THEN "end_hour" ELSE "appliance"
    /\ UNCHANGED <<household, uiVars, daysVars>>

\* simulate_hour, lines 437-445: the loop body for order[idx]
ConsiderAppliance ==
    /\ pc = "appliance"
    /\ LET acc == [available_power |-> available_power, power_used |-> power_used,
                   appliances_running |-> appliances_running,
                   appliances |-> household.appliances]
           r   == ConsiderStep(acc, order[idx], hour, day)
       IN  /\ available_power' = r.available_power
           /\ power_used' = r.power_used
           /\ appliances_running' = r.appliances_running
           /\ household' = [household EXCEPT !.appliances = r.appliances]
    /\ idx' = idx + 1
    /\ pc' = IF idx = Len(order) THEN "end_hour" ELSE "appliance"
    /\ UNCHANGED <<uiVars, daysVars, generation, order>>

\* the end of an hour putting the record in front of the list
SimulateHourEndPrepend ==
    /\ pc = "end_hour"
    /\ LET charge == EndCharge(available_power, household.battery.capacity)
           hour_result == [day |-> day, hour |-> hour, generation |-> generation,
                           power_used |-> power_used, battery_charge |-> charge,
                           appliances_running |-> appliances_running]
       IN  /\ results' = <<hour_result>> \o results
           /\ battery_charge' = charge
    /\ IF MoreHours(hour)
       THEN /\ hour' = hour + 1
            /\ day' = day
            /\ pc' = "hour"
       ELSE /\ hour' = 0
            /\ day' = day + 1
            /\ pc' = IF day + 1 < num_days THEN "reset" ELSE "return"
    /\ NoHourLocals
    /\ UNCHANGED <<household, uiVars, num_days, total_generation>>

\* simulate_hour, lines 447-456, then simulate_days, lines 423-424 and the
\* loop tests of lines 421 and 416
SimulateHourEnd ==
    /\ pc = "end_hour"
    /\ LET charge == EndCharge(available_power, household.battery.capacity)
           hour_result == [day |-> day, hour |-> hour, generation |-> generation,
                           power_used |-> power_used, battery_charge |-> charge,
                           appliances_running |-> appliances_running]
       IN  /\ results' = Append(results, hour_result)
           /\ battery_charge' = charge
    /\ IF MoreHours(hour)
       THEN /\ hour' = hour + 1
            /\ day' = day
            /\ pc' = "hour"
       ELSE /\ hour' = 0
            /\ day' = day + 1
            /\ pc' = IF day + 1 < num_days THEN "reset" ELSE "return"
    /\ NoHourLocals
    /\ UNCHANGED <<household, uiVars, num_days, total_generation>>

\* simulate_days returns; run_simulation stores the list
SimulateDaysReturn ==
    /\ pc = "return"
    /\ simulation_results' = results
    /\ pc' = "idle"
    /\ NoDaysLocals
    /\ UNCHANGED <<household, appliance_list, file, message, ops, hourVars>>

Next ==
    \/ SetComponents
    \/ AddAppliance
    \/ RemoveAppliance
    \/ RunSimulation
    \/ SimulateDays
    \/ ResetDailyRuntime
    \/ SimulateHourBegin
    \/ ConsiderAppliance
    \/ SimulateHourEnd
    \/ SimulateDaysReturn

\* the steps of a simulation in progress
SimStep ==
    \/ ResetDailyRuntime
    \/ SimulateHourBegin
    \/ ConsiderAppliance
    \/ SimulateHourEnd
    \/ SimulateDaysReturn

Spec == Init /\ [][Next]_vars

(***************************************************************************)
(* The window test on every pair of start and end hours: a configured      *)
(* household with one appliance whose window is any pair of hours, whose   *)
(* power the battery always covers and whose min_runtime no day reaches;   *)
(* one run_simulation follows.                                             *)
(***************************************************************************)
Hours == 0..(HoursPerDay - 1)

WindowHousehold(s, e) ==
    [set_components(SolarHousehold, <<Text(1000), Text(2000), Text(30), Text(1500)>>)
        EXCEPT !.appliances =
            <<Appliance("w", 50, "Medium", QTime(s, 0), QTime(e, 0), HoursPerDay)>>]

InitWindow ==
    /\ \E s \in Hours : \E e \in Hours : household = WindowHousehold(s, e)
    /\ simulation_results = <<>>
    /\ appliance_list = ItemTexts(household.appliances)
    /\ file = NoFile
    /\ message = "none"
    /\ ops = MaxOps - 1
    /\ pc = "idle"
    /\ num_days = 0 /\ day = 0 /\ hour = 0 /\ battery_charge = 0
    /\ total_generation = 0 /\ results = <<>>
    /\ generation = 0 /\ available_power = 0 /\ power_used = 0
    /\ appliances_running = <<>> /\ order = <<>> /\ idx = 0

NextWindow ==
    \/ RunSimulation
    \/ ResetDailyRuntime
    \/ SimulateHourBegin
    \/ ConsiderAppliance
    \/ SimulateHourEnd
    \/ SimulateDaysReturn

SpecWindow == InitWindow /\ [][NextWindow]_vars

(***************************************************************************)
(* Runs in which power is scarce: the panel of 1000 W with the battery of  *)
(* 800 Wh (the state after set_components succeeded with a battery of 800  *)
(* and then failed at the battery text with a panel text of 1000) and two  *)
(* different appliances of the form inputs, in either order; one           *)
(* run_simulation follows.                                                 *)
(***************************************************************************)
ScarceHouseholds ==
    LET good == { in \in ApplianceInputs : NumbersOk(in) }
        base == set_components(
                    set_components(SolarHousehold,
                                   <<Text(0), Text(800), Text(30), Text(1500)>>),
                    <<Text(1000), BadText, Text(30), Text(1500)>>)
    IN  { [base EXCEPT !.appliances = <<ApplianceOf(x), ApplianceOf(y)>>] :
            <<x, y>> \in { pr \in good \X good : pr[1] # pr[2] } }

InitScarce ==
    /\ household \in ScarceHouseholds
    /\ simulation_results = <<>>
    /\ appliance_list = ItemTexts(household.appliances)
    /\ file = NoFile
    /\ message = "none"
    /\ ops = MaxOps - 1
    /\ pc = "idle"
    /\ num_days = 0 /\ day = 0 /\ hour = 0 /\ battery_charge = 0
    /\ total_generation = 0 /\ results = <<>>
    /\ generation = 0 /\ available_power = 0 /\ power_used = 0
    /\ appliances_running = <<>> /\ order = <<>> /\ idx = 0

SpecScarce == InitScarce /\ [][NextWindow]_vars

(***************************************************************************)
(* Persistence: a new MainWindow and a configuration file on disk, holding *)
(* any of a set of valid configuration records or a content that is not    *)
(* one; configurations are loaded, simulated and saved.                    *)
(***************************************************************************)
ComponentRecords(name, capacity) ==
    {JsonNull, [name |-> name, capacity |-> capacity]}

ApplianceRecordX ==
    [name |-> "x", power |-> 300, priority |-> "Low",
     start_time |-> <<0, 9, 3, 0>>, end_time |-> <<1, 7, 0, 5>>, min_runtime |-> 3]

ApplianceRecordY ==
    [name |-> "y", power |-> 800, priority |-> "High",
     start_time |-> <<2, 2, 0, 0>>, end_time |-> <<0, 6, 0, 0>>, min_runtime |-> 1]

\* valid configuration records: each component null or a name/capacity
\* object, an appliance list, HH:mm times, a voltage of 12 or 24
ValidRecords ==
    [solar_panel       : ComponentRecords("Solar Panel", 1000),
     battery           : ComponentRecords("Battery", 2000),
     charge_controller : ComponentRecords("Charge Controller", 30),
     inverter          : ComponentRecords("Inverter", 1500),
     appliances        : {<<>>, <<ApplianceRecordX>>, <<ApplianceRecordY, ApplianceRecordX>>},
     sunrise           : {<<0, 5, 4, 5>>},
     sunset            : {<<2, 0, 0, 0>>},
     system_voltage    : {12, 24}]

\* a record without the key "appliances"
RecordMissingKey ==
    [solar_panel |-> [name |-> "Solar Panel", capacity |-> 1000],
     battery |-> [name |-> "Battery", capacity |-> 2000],
     charge_controller |-> JsonNull, inverter |-> JsonNull,
     sunrise |-> <<0, 6, 0, 0>>, sunset |-> <<2, 0, 0, 0>>, system_voltage |-> 12]

\* a record with the time text "24:00", which is no time of day
RecordBadTime ==
    [solar_panel |-> [name |-> "Solar Panel", capacity |-> 1000],
     battery |-> [name |-> "Battery", capacity |-> 2000],
     charge_controller |-> [name |-> "Charge Controller", capacity |-> 30],
     inverter |-> [name |-> "Inverter", capacity |-> 1500],
     appliances |-> <<[ApplianceRecordX EXCEPT !.end_time = <<2, 4, 0, 0>>]>>,
     sunrise |-> <<0, 6, 0, 0>>, sunset |-> <<2, 0, 0, 0>>, system_voltage |-> 12]

FileContents == ValidRecords \cup {NotJson, RecordMissingKey, RecordBadTime}

InitCodec ==
    /\ household = SolarHousehold
    /\ simulation_results = <<>>
    /\ appliance_list = <<>>
    /\ file \in FileContents
    /\ message = "none"
    /\ ops = 0
    /\ pc = "idle"
    /\ num_days = 0 /\ day = 0 /\ hour = 0 /\ battery_charge = 0
    /\ total_generation = 0 /\ results = <<>>
    /\ generation = 0 /\ available_power = 0 /\ power_used = 0
    /\ appliances_running = <<>> /\ order = <<>> /\ idx = 0

NextCodec ==
    \/ LoadConfiguration
    \/ SaveConfiguration
    \/ RunSimulation
    \/ ResetDailyRuntime
    \/ SimulateHourBegin
    \/ ConsiderAppliance
    \/ SimulateHourEnd
    \/ SimulateDaysReturn

SpecCodec == InitCodec /\ [][NextCodec]_vars

(***************************************************************************)
(* System settings: households that differ in the capacities of the charge *)
(* controller and the inverter, whose sunrise, sunset and system voltage   *)
(* set_system_settings changes; simulations run before and after.  Power   *)
(* is scarce (panel 1000 W, battery 800 Wh), so a limit on generation or   *)
(* on the charge would show in the records.                                *)
(***************************************************************************)
\* the settings form: sunrise_edit, sunset_edit, the "12V"/"24V" combo box
SettingsInputs ==
    [sunrise : {QTime(6, 0), QTime(9, 30)},
     sunset  : {QTime(20, 0), QTime(17, 15)},
     voltage : {12, 24}]

\* set_system_settings: three assignments, no validation
set_system_settings(h, in) ==
    [h EXCEPT !.sunrise = in.sunrise, !.sunset = in.sunset,
              !.system_voltage = in.voltage]

SetSystemSettings ==
    \E in \in SettingsInputs :
        /\ Idle
        /\ ops' = ops + 1
        /\ household' = set_system_settings(household, in)
        /\ message' = "settings_set"
        /\ UNCHANGED <<simulation_results, appliance_list, file, pc, daysVars, hourVars>>

\* households after set_components with a charge controller of 30 or 5 and an
\* inverter of 1500 or 300, holding two appliances of the form inputs
SettingsHouseholds ==
    LET in(n) == CHOOSE x \in ApplianceInputs : x.name = n
    IN  { [set_components(SolarHousehold, <<Text(1000), Text(800), Text(cc), Text(inv)>>)
              EXCEPT !.appliances = <<ApplianceOf(in(l[1])), ApplianceOf(in(l[2]))>>] :
            cc \in {30, 5}, inv \in {1500, 300}, l \in {<<"c", "b">>, <<"a", "b">>} }

InitSettings ==
    /\ household \in SettingsHouseholds
    /\ simulation_results = <<>>
    /\ appliance_list = ItemTexts(household.appliances)
    /\ file = NoFile
    /\ message = "none"
    /\ ops = MaxOps - 2
    /\ pc = "idle"
    /\ num_days = 0 /\ day = 0 /\ hour = 0 /\ battery_charge = 0
    /\ total_generation = 0 /\ results = <<>>
    /\ generation = 0 /\ available_power = 0 /\ power_used = 0
    /\ appliances_running = <<>> /\ order = <<>> /\ idx = 0

NextSettings ==
    \/ SetSystemSettings
    \/ RunSimulation
    \/ ResetDailyRuntime
    \/ SimulateHourBegin
    \/ ConsiderAppliance
    \/ SimulateHourEnd
    \/ SimulateDaysReturn

SpecSettings == InitSettings /\ [][NextSettings]_vars

(***************************************************************************)
(* Runtime budgets: a configured household (panel 1000 W, battery 2000 Wh, *)
(* more than any two of the appliances draw) to which add_appliance adds   *)
(* appliances of 300 W whose min_runtime text is -1, 0, 1 or 3; float()    *)
(* accepts all four.  Simulations follow.                                  *)
(***************************************************************************)
BudgetInputs ==
    { [name |-> "n", power |-> Text(300), priority |-> "High",
       start_time |-> QTime(0, 0), end_time |-> QTime(23, 0), min_runtime |-> Text(-1)],
      [name |-> "z", power |-> Text(300), priority |-> "Medium",
       start_time |-> QTime(0, 0), end_time |-> QTime(23, 0), min_runtime |-> Text(0)],
      [name |-> "p", power |-> Text(300), priority |-> "Low",
       start_time |-> QTime(20, 0), end_time |-> QTime(6, 0), min_runtime |-> Text(1)],
      [name |-> "q", power |-> Text(300), priority |-> "Medium",
       start_time |-> QTime(7, 0), end_time |-> QTime(19, 0), min_runtime |-> Text(3)] }

AddBudgetAppliance == \E in \in BudgetInputs : add_appliance(in)

InitBudget ==
    /\ household = set_components(SolarHousehold,
                                  <<Text(1000), Text(2000), Text(30), Text(1500)>>)
    /\ simulation_results = <<>>
    /\ appliance_list = <<>>
    /\ file = NoFile
    /\ message = "none"
    /\ ops = MaxOps - 3
    /\ pc = "idle"
    /\ num_days = 0 /\ day = 0 /\ hour = 0 /\ battery_charge = 0
    /\ total_generation = 0 /\ results = <<>>
    /\ generation = 0 /\ available_power = 0 /\ power_used = 0
    /\ appliances_running = <<>> /\ order = <<>> /\ idx = 0

NextBudget ==
    \/ AddBudgetAppliance
    \/ RunSimulation
    \/ ResetDailyRuntime
    \/ SimulateHourBegin
    \/ ConsiderAppliance
    \/ SimulateHourEnd
    \/ SimulateDaysReturn

SpecBudget == InitBudget /\ [][NextBudget]_vars

(***************************************************************************)
(* The displayed list and the household: a new MainWindow with a           *)
(* configuration file on disk, as for the persistence; appliances are      *)
(* added and removed and configurations are loaded, in any order.          *)
(***************************************************************************)
NextList ==
    \/ AddAppliance
    \/ RemoveAppliance
    \/ LoadConfiguration

SpecList == InitCodec /\ [][NextList]_vars

(***************************************************************************)
(* Windows within one clock hour: a configured household (panel 1000 W,    *)
(* battery 2000 Wh) to which add_appliance adds appliances whose start and *)
(* end times have the same hour (the default 00:00 to 00:00 of the time    *)
(* edits, 09:10 to 09:50, 13:45 to 13:15) and an appliance with the window *)
(* 07:00 to 19:00.  Simulations follow.                                    *)
(***************************************************************************)
SameHourInputs ==
    { [name |-> "s0", power |-> Text(300), priority |-> "High",
       start_time |-> QTime(0, 0), end_time |-> QTime(0, 0), min_runtime |-> Text(5)],
      [name |-> "s9", power |-> Text(300), priority |-> "High",
       start_time |-> QTime(9, 10), end_time |-> QTime(9, 50), min_runtime |-> Text(5)],
      [name |-> "s13", power |-> Text(300), priority |-> "Low",
       start_time |-> QTime(13, 45), end_time |-> QTime(13, 15), min_runtime |-> Text(5)],
      [name |-> "q", power |-> Text(300), priority |-> "Medium",
       start_time |-> QTime(7, 0), end_time |-> QTime(19, 0), min_runtime |-> Text(5)] }

AddSameHourAppliance == \E in \in SameHourInputs : add_appliance(in)

NextSameHour ==
    \/ AddSameHourAppliance
    \/ RunSimulation
    \/ ResetDailyRuntime
    \/ SimulateHourBegin
    \/ ConsiderAppliance
    \/ SimulateHourEnd
    \/ SimulateDaysReturn

\* the initial state is that of the runtime budgets: components set, no
\* appliance yet
SpecSameHour == InitBudget /\ [][NextSameHour]_vars

(***************************************************************************)
(* The engines of the other two variants, src/main.py and src/main_ux.py,  *)
(* as functions of the household.  Their Appliance class, generation table *)
(* and loop body are the text of the appliance-status variant; their for   *)
(* loop runs over self.household.appliances itself, unsorted.              *)
(***************************************************************************)
MainNumDays == 3     \* main.py, simulate_day: for day in range(3)

\* for appliance in self.household.appliances
InDeclarationOrder(apps) == [i \in 1..Len(apps) |-> i]

\* main.py, simulate_hour
main_simulate_hour(hh, h, d, charge, tg) ==
    LET gen == Generation(tg, h)
        acc == [available_power |-> gen + charge, power_used |-> 0,
                appliances_running |-> <<>>, appliances |-> hh.appliances]
        fin == LoopFrom(acc, InDeclarationOrder(hh.appliances), 1, h, d)
    IN  [hour_result |->
             [day |-> d, hour |-> h, generation |-> gen,
              power_used |-> fin.power_used,
              battery_charge |-> Min(fin.available_power, hh.battery.capacity),
              appliances_running |-> fin.appliances_running],
         appliances |-> fin.appliances]

\* main_ux.py, simulate_hour
main_ux_simulate_hour(hh, h, d, charge, tg) ==
    LET gen == Generation(tg, h)
        acc == [available_power |-> gen + charge, power_used |-> 0,
                appliances_running |-> <<>>, appliances |-> hh.appliances]
        fin == LoopFrom(acc, InDeclarationOrder(hh.appliances), 1, h, d)
    IN  [hour_result |->
             [day |-> d, hour |-> h, generation |-> gen,
              power_used |-> fin.power_used,
              battery_charge |-> Min(fin.available_power, hh.battery.capacity),
              appliances_running |-> fin.appliances_running],
         appliances |-> fin.appliances]

\* the hour loop of a day: for hour in range(24)
RECURSIVE main_HoursFrom(_, _, _, _, _, _)
main_HoursFrom(apps, hh, d, h, charge, recs) ==
    CHOOSE out \in
        { IF h + 1 < 24
          THEN main_HoursFrom(r.appliances, hh, d, h + 1, r.hour_result.battery_charge,
                              Append(recs, r.hour_result))
          ELSE [results |-> Append(recs, r.hour_result),
                appliances |-> r.appliances,
                battery_charge |-> r.hour_result.battery_charge] :
            r \in { main_simulate_hour([hh EXCEPT !.appliances = apps], h, d, charge,
                                       hh.solar_panel.capacity) } } : TRUE

RECURSIVE main_ux_HoursFrom(_, _, _, _, _, _)
main_ux_HoursFrom(apps, hh, d, h, charge, recs) ==
    CHOOSE out \in
        { IF h + 1 < 24
          THEN main_ux_HoursFrom(r.appliances, hh, d, h + 1, r.hour_result.battery_charge,
                                 Append(recs, r.hour_result))
          ELSE [results |-> Append(recs, r.hour_result),
                appliances |-> r.appliances,
                battery_charge |-> r.hour_result.battery_charge] :
            r \in { main_ux_simulate_hour([hh EXCEPT !.appliances = apps], h, d, charge,
                                          hh.solar_panel.capacity) } } : TRUE

\* the day loop: the reset of every appliance, then the hours
RECURSIVE main_DaysFrom(_, _, _, _, _)
main_DaysFrom(apps, hh, d, charge, recs) ==
    IF d >= MainNumDays THEN [results |-> recs, appliances |-> apps]
    ELSE CHOOSE out \in
             { main_DaysFrom(dd.appliances, hh, d + 1, dd.battery_charge, recs \o dd.results) :
                 dd \in { main_HoursFrom([i \in 1..Len(apps) |-> reset_daily_runtime(apps[i], d)],
                                         hh, d, 0, charge, <<>>) } } : TRUE

RECURSIVE main_ux_DaysFrom(_, _, _, _, _, _)
main_ux_DaysFrom(apps, hh, n, d, charge, recs) ==
    IF d >= n THEN [results |-> recs, appliances |-> apps]
    ELSE CHOOSE out \in
             { main_ux_DaysFrom(dd.appliances, hh, n, d + 1, dd.battery_charge,
                                recs \o dd.results) :
                 dd \in { main_ux_HoursFrom([i \in 1..Len(apps) |-> reset_daily_runtime(apps[i], d)],
                                            hh, d, 0, charge, <<>>) } } : TRUE

\* main.py, simulate_day
main_simulate_day(hh) == main_DaysFrom(hh.appliances, hh, 0, hh.battery.capacity, <<>>)

\* main_ux.py, simulate_days(num_days)
main_ux_simulate_days(hh, n) ==
    main_ux_DaysFrom(hh.appliances, hh, n, 0, hh.battery.capacity, <<>>)

DialMaximum == 71   \* main.py: self.hour_dial.setMaximum(71); the minimum is 0

\* main.py, update_simulation_output(value) once simulation_results exists:
\* the day and hour of the label and the record shown (Python indexes from 0)
update_simulation_output(results_list, value) ==
    [hour |-> value % 24, day |-> value \div 24, result |-> results_list[value + 1]]

(***************************************************************************)
(* Runs on which the iteration order matters: the panel of 1000 W with the *)
(* battery of 800 Wh and two different appliances out of a, b, c and g,    *)
(* where g has the priority of a; one run_simulation follows.              *)
(***************************************************************************)
VariantInputs ==
    { in \in ApplianceInputs : NumbersOk(in) } \cup
    { [name |-> "g", power |-> Text(800), priority |-> "High",
       start_time |-> QTime(8, 0), end_time |-> QTime(12, 0), min_runtime |-> Text(2)] }

VariantHouseholds ==
    LET base == set_components(SolarHousehold,
                               <<Text(1000), Text(800), Text(30), Text(1500)>>)
    IN  { [base EXCEPT !.appliances = <<ApplianceOf(x), ApplianceOf(y)>>] :
            <<x, y>> \in { pr \in VariantInputs \X VariantInputs : pr[1] # pr[2] } }

InitVariants ==
    /\ household \in VariantHouseholds
    /\ simulation_results = <<>>
    /\ appliance_list = ItemTexts(household.appliances)
    /\ file = NoFile
    /\ message = "none"
    /\ ops = MaxOps - 1
    /\ pc = "idle"
    /\ num_days = 0 /\ day = 0 /\ hour = 0 /\ battery_charge = 0
    /\ total_generation = 0 /\ results = <<>>
    /\ generation = 0 /\ available_power = 0 /\ power_used = 0
    /\ appliances_running = <<>> /\ order = <<>> /\ idx = 0

SpecVariants == InitVariants /\ [][NextWindow]_vars

(***************************************************************************)
(* The step actions and the function simulate_hour agree: while the loop   *)
(* runs, finishing it from the current position gives one and the same     *)
(* outcome, which at the start of the loop is simulate_hour's.             *)
(***************************************************************************)
LoopLocals ==
    [available_power |-> available_power, power_used |-> power_used,
     appliances_running |-> appliances_running, appliances |-> household.appliances]

HourOutcome == LoopFrom(LoopLocals, order, idx, hour, day)

StepsAgreeWithFunction ==
    [][ /\ (pc = "hour" =>
              LET f == simulate_hour(household, hour, day, battery_charge, total_generation)
              IN  /\ HourOutcome'.appliances = f.appliances
                  /\ HourOutcome'.appliances_running = f.hour_result.appliances_running
                  /\ HourOutcome'.power_used = f.hour_result.power_used)
        /\ (pc = "appliance" => HourOutcome' = HourOutcome)
        /\ (pc = "end_hour" =>
              /\ HourOutcome = LoopLocals
              /\ results'[Len(results')].battery_charge =
                     EndCharge(available_power, household.battery.capacity)) ]_vars

(***************************************************************************)
(* Claims.                                                                 *)
(***************************************************************************)

\* C1: in every result record of a simulation run, battery_charge is at most
\* the battery's capacity: the record just appended, and every record of the
\* list that simulate_days returns.
C1_BatteryChargeBounded ==
    /\ (results # <<>> =>
          results[Len(results)].battery_charge <= household.battery.capacity)
    /\ (pc = "return" =>
          \A i \in 1..Len(results) :
              results[i].battery_charge <= household.battery.capacity)

\* C1 witness: a finished hour in which the budget left over exceeded the
\* capacity and the record holds exactly the capacity.
C1_Witness ==
    pc = "return" /\ \E i \in 2..Len(results) :
        /\ results[i - 1].battery_charge + results[i].generation
               - results[i].power_used > household.battery.capacity
        /\ results[i].battery_charge = household.battery.capacity

\* battery_charge_in values on which simulate_hour is compared
ChargeValues == {0, 500, 800, 1300}

\* the appliances (indices) that simulate_hour admits when called with charge c
\* in the current hour, day, household and runtime counters
AdmittedWith(c) ==
    LET f == simulate_hour(household, hour, day, c, total_generation)
    IN  { i \in 1..Len(household.appliances) :
            get_daily_runtime(f.appliances[i], day)
                # get_daily_runtime(household.appliances[i], day) }

\* position of appliance i in the iteration order
PositionIn(ord, i) == CHOOSE k \in 1..Len(ord) : ord[k] = i

\* C2 as stated: with a larger battery_charge_in, the admitted set is a
\* superset of the set admitted with the smaller charge.
C2_AdmissionMonotonic ==
    pc = "hour" =>
        \A c1 \in ChargeValues : \A c2 \in ChargeValues :
            c1 <= c2 => AdmittedWith(c1) \subseteq AdmittedWith(c2)

\* C2 amended: an appliance admitted with the smaller charge is admitted with
\* the larger charge too, unless an appliance earlier in the iteration order
\* that was refused with the smaller charge is admitted with the larger one.
C2_AdmissionMonotonicUpToEarlier ==
    pc = "hour" =>
        LET ord == SortedByPriority(household.appliances)
        IN  \A c1 \in ChargeValues : \A c2 \in ChargeValues :
                c1 <= c2 =>
                    \A j \in AdmittedWith(c1) \ AdmittedWith(c2) :
                        \E i \in AdmittedWith(c2) \ AdmittedWith(c1) :
                            PositionIn(ord, i) < PositionIn(ord, j)

\* C2 witness: an hour in which a larger charge admits an earlier appliance
\* and thereby removes a later one from the admitted set.
C2_Witness ==
    /\ pc = "hour"
    /\ \E c1 \in ChargeValues : \E c2 \in ChargeValues :
          /\ c1 < c2
          /\ AdmittedWith(c1) # {}
          /\ AdmittedWith(c2) # {}
          /\ AdmittedWith(c1) \cap AdmittedWith(c2) = {}


\* Steps a simulation in progress still has to take: one per reset, two per
\* hour and one per appliance considered, and the return.
StepsPerHour == Len(household.appliances) + 2
RemainingAtDay(d) == (num_days - d) * (HoursPerDay * StepsPerHour + 1) + 1
Remaining ==
    CASE pc = "idle"      -> 0
      [] pc = "return"    -> 1
      [] pc = "reset"     -> RemainingAtDay(day)
      [] pc = "hour"      -> RemainingAtDay(day + 1) + (HoursPerDay - hour) * StepsPerHour
      [] pc = "appliance" -> RemainingAtDay(day + 1) + (HoursPerDay - hour) * StepsPerHour - idx
      [] pc = "end_hour"  -> RemainingAtDay(day + 1) + (HoursPerDay - hour) * StepsPerHour - idx

\* results holds one record per (day, hour) pair of num_days days, in order
AllRecords ==
    /\ Len(results) = num_days * 24
    /\ \A i \in 1..Len(results) :
          /\ results[i].day = (i - 1) \div 24
          /\ results[i].hour = (i - 1) % 24

\* C3: simulate_days(num_days) terminates and returns exactly num_days x 24
\* records, one per (day, hour) pair: a simulation in progress can always
\* take a step, every step lowers the number of steps left, which is never
\* negative, and what is returned is the full list.
C3_TerminatesWithAllRecords ==
    /\ [](pc # "idle" => ENABLED SimStep)
    /\ [][ /\ (pc # "idle" => Remaining' < Remaining /\ Remaining' >= 0)
           /\ (pc' = "return" => AllRecords')
           /\ (pc = "return" => pc' = "idle" /\ simulation_results' = results) ]_vars

\* C3 witness: a two-day run about to return its 48 records, and a three-day
\* run has returned 72.
C3_Witness ==
    /\ pc = "return"
    /\ num_days = 2
    /\ Len(results) = 48
    /\ Len(simulation_results) = 72


\* C4: at the start of every simulated day d, before hour 0 of day d is
\* simulated, get_daily_runtime(d) is 0 for every appliance, whatever it
\* accumulated on earlier days or in earlier runs.
C4_RuntimeZeroAtDayStart ==
    (pc = "hour" /\ hour = 0) =>
        \A i \in 1..Len(household.appliances) :
            get_daily_runtime(household.appliances[i], day) = 0

\* C4 witness: day 1 of a later run is about to start; an earlier run returned
\* records of day 1 in which an appliance ran, and an appliance reached its
\* min_runtime on day 0 of this run.
C4_Witness ==
    /\ pc = "hour" /\ hour = 0 /\ day = 1
    /\ \E k \in 1..Len(simulation_results) :
          /\ simulation_results[k].day = 1
          /\ simulation_results[k].appliances_running # <<>>
    /\ \E i \in 1..Len(household.appliances) :
          /\ household.appliances[i].min_runtime > 0
          /\ get_daily_runtime(household.appliances[i], 0)
                 >= household.appliances[i].min_runtime
          /\ get_daily_runtime(household.appliances[i], 1) = 0

\* the table of the generation profile as the specification gives it, in tenths
TableTenths(h) ==
    CASE h = 6  -> 0 [] h = 7  -> 1 [] h = 8  -> 3 [] h = 9  -> 5 [] h = 10 -> 7
      [] h = 11 -> 8 [] h = 12 -> 9 [] h = 13 -> 10 [] h = 14 -> 9 [] h = 15 -> 8
      [] h = 16 -> 7 [] h = 17 -> 5 [] h = 18 -> 3 [] h = 19 -> 1 [] h = 20 -> 0
      [] OTHER -> 0

\* C5: the generation of every record is the panel capacity times the fraction
\* of the fixed table for hours 6..20 and 0 outside it, so it is 0 for hours
\* 0..6 and 20..23 (every record of the returned list); the generation
\* simulate_hour works with is the same.
C5_GenerationFollowsTable ==
    /\ (pc = "return" =>
          \A i \in 1..Len(results) :
              /\ 10 * results[i].generation
                     = household.solar_panel.capacity * TableTenths(results[i].hour)
              /\ (results[i].hour \in (0..6) \cup (20..23) => results[i].generation = 0))
    /\ (pc \in {"appliance", "end_hour"} =>
          10 * generation = household.solar_panel.capacity * TableTenths(hour))

\* C5 witness: a run with a panel of non-zero capacity has recorded the full
\* capacity at hour 13, a tenth of it at hour 19 and nothing at hour 21.
C5_Witness ==
    /\ pc = "return"
    /\ household.solar_panel.capacity > 0
    /\ \E i \in 1..Len(results) : \E j \in 1..Len(results) : \E k \in 1..Len(results) :
          /\ results[i].hour = 13
          /\ results[i].generation = household.solar_panel.capacity
          /\ results[j].hour = 19
          /\ 10 * results[j].generation = household.solar_panel.capacity
          /\ results[k].hour = 21
          /\ results[k].generation = 0


\* the window test as the specification words it
ClaimedEligible(start_hour, end_hour, h) ==
    IF start_hour <= end_hour
    THEN start_hour <= h /\ h < end_hour
    ELSE h >= start_hour \/ h < end_hour

EligibleNow(a) ==
    ClaimedEligible(QTimeHour(a.start_time), QTimeHour(a.end_time), hour)

\* C6: for every hour and every pair of start and end hours the appliance is
\* eligible exactly when start <= hour < end (start <= end) or when
\* hour >= start or hour < end (start > end); start 22, end 6 is eligible at
\* hours 23 and 3 and not at hour 10.  Power and runtime budget never refuse
\* the appliance of SpecWindow, so it runs exactly in its eligible hours.
C6_WindowTest ==
    pc = "end_hour" =>
        LET a == household.appliances[1]
            s == QTimeHour(a.start_time)
            e == QTimeHour(a.end_time)
            runs == appliances_running = <<a.name>>
        IN  /\ runs <=> ClaimedEligible(s, e, hour)
            /\ ~runs => appliances_running = <<>>
            /\ (s = 22 /\ e = 6 /\ hour \in {23, 3}) => runs
            /\ (s = 22 /\ e = 6 /\ hour = 10) => ~runs

\* C6 witness: the appliance with window 22 to 6 has run at hour 23, after it
\* sat out hour 10 and ran at hour 3 of the same day.
C6_Witness ==
    /\ pc = "end_hour" /\ hour = 23
    /\ QTimeHour(household.appliances[1].start_time) = 22
    /\ QTimeHour(household.appliances[1].end_time) = 6
    /\ appliances_running = <<"w">>
    /\ results[Len(results) - 12].hour = 10
    /\ results[Len(results) - 12].appliances_running = <<>>
    /\ results[Len(results) - 19].hour = 3
    /\ results[Len(results) - 19].appliances_running = <<"w">>

\* C7: the appliance under consideration is admitted if and only if the hour
\* is inside its window, the remaining available_power is at least its power
\* and its get_daily_runtime(day) is below its min_runtime; admitting it
\* subtracts its power from available_power, adds exactly 1 to its
\* daily_runtime of the day and appends its name to the running list; refusing
\* it changes none of them.  No other appliance changes.
C7_AdmissionRule ==
    [][ pc = "appliance" =>
          LET i == order[idx]
              a == household.appliances[i]
              b == household'.appliances[i]
              admit == /\ EligibleNow(a)
                       /\ available_power >= a.power
                       /\ get_daily_runtime(a, day) < a.min_runtime
          IN  /\ IF admit
                 THEN /\ available_power' = available_power - a.power
                      /\ power_used' = power_used + a.power
                      /\ get_daily_runtime(b, day) = get_daily_runtime(a, day) + 1
                      /\ appliances_running' = Append(appliances_running, a.name)
                 ELSE /\ available_power' = available_power
                      /\ power_used' = power_used
                      /\ b = a
                      /\ appliances_running' = appliances_running
              /\ \A j \in 1..Len(household.appliances) :
                    j # i => household'.appliances[j] = household.appliances[j]
              /\ \A d \in DOMAIN a.daily_runtime :
                    d # day => b.daily_runtime[d] = a.daily_runtime[d] ]_vars

\* C7 witness: an hour is over in which one appliance was admitted and another,
\* inside its window and with enough power left for it, was refused because
\* its runtime of the day had reached min_runtime.
C7_Witness ==
    /\ pc = "end_hour"
    /\ appliances_running # <<>>
    /\ \E i \in 1..Len(household.appliances) :
          LET a == household.appliances[i]
          IN  /\ EligibleNow(a)
              /\ available_power >= a.power
              /\ a.min_runtime > 0
              /\ get_daily_runtime(a, day) = a.min_runtime
              /\ \A k \in 1..Len(appliances_running) : appliances_running[k] # a.name

\* the household of the end-to-end scenario
Scenario ==
    /\ household.solar_panel # None
    /\ household.battery # None
    /\ household.solar_panel.capacity = 1000
    /\ household.battery.capacity = 2000
    /\ Len(household.appliances) = 1
    /\ household.appliances[1].power = 500
    /\ household.appliances[1].priority = "High"
    /\ household.appliances[1].start_time = QTime(8, 0)
    /\ household.appliances[1].end_time = QTime(18, 0)
    /\ household.appliances[1].min_runtime = 4

\* C8: in the scenario, on day 0 the appliance is admitted at hour 8
\* (generation 300, available 2300), which makes its daily_runtime 1; it is
\* admitted in hours 8, 9, 10 and 11 only; its daily_runtime is 4 by hour 12
\* and it is not admitted again that day.
C8_Scenario ==
    (Scenario /\ pc # "idle") =>
        LET a == household.appliances[1]
            rt == get_daily_runtime(a, 0)
        IN  /\ (pc = "appliance" /\ day = 0 /\ hour = 8) =>
                  (generation = 300 /\ available_power = 2300 /\ rt = 0)
            /\ (pc = "end_hour" /\ day = 0 /\ hour = 8) =>
                  (appliances_running = <<a.name>> /\ rt = 1)
            /\ (pc = "end_hour" /\ day = 0) =>
                  appliances_running = IF hour \in 8..11 THEN <<a.name>> ELSE <<>>
            /\ (pc = "hour" /\ day = 0) =>
                  rt = IF hour <= 8 THEN 0 ELSE IF hour >= 12 THEN 4 ELSE hour - 8
            /\ (pc \in {"reset", "return"} /\ day >= 1) =>
                  /\ rt = 4
                  /\ \A i \in 1..24 :
                        results[i].appliances_running
                            = IF results[i].hour \in 8..11 THEN <<a.name>> ELSE <<>>

\* C8 witness: hour 12 of day 0 of the scenario is about to start with a
\* daily_runtime of 4, after the appliance ran in hours 8 to 11.
C8_Witness ==
    /\ Scenario
    /\ pc = "hour" /\ day = 0 /\ hour = 12
    /\ get_daily_runtime(household.appliances[1], 0) = 4
    /\ Len(results) = 12
    /\ results[8].appliances_running = <<>>
    /\ results[9].generation = 300
    /\ \A i \in 9..12 : results[i].appliances_running = <<"a">>

\* the order of the priority labels as strings: "High" < "Low" < "Medium"
LabelRank(p) ==
    CASE p = "High" -> 1 [] p = "Low" -> 2 [] p = "Medium" -> 3

\* of two appliances, the one that comes first in the priority-label sort
\* (ties in insertion order)
FirstOfTwo(apps) ==
    IF LabelRank(apps[2].priority) < LabelRank(apps[1].priority) THEN 2 ELSE 1

\* C9: when the household's two appliances of 500 W each are both inside their
\* window and under their runtime budget and the hour's available power is
\* 800, the hour admits exactly one of them, the one that comes first in the
\* priority-label sort.
C9_OneOfTwoAdmitted ==
    ( /\ pc = "appliance" /\ idx = 1
      /\ Len(household.appliances) = 2
      /\ available_power = 800
      /\ \A i \in 1..2 :
            /\ household.appliances[i].power = 500
            /\ EligibleNow(household.appliances[i])
            /\ get_daily_runtime(household.appliances[i], day)
                   < household.appliances[i].min_runtime )
    => LET first == FirstOfTwo(household.appliances)
           other == 3 - first
           out   == HourOutcome
       IN  /\ out.appliances_running = <<household.appliances[first].name>>
           /\ get_daily_runtime(out.appliances[first], day)
                  = get_daily_runtime(household.appliances[first], day) + 1
           /\ out.appliances[other] = household.appliances[other]
           /\ out.power_used = 500
           /\ out.available_power = 300

\* C9 witness: an hour that started with 800 available is over; of two
\* eligible 500 W appliances under budget the one inserted second, which sorts
\* first, ran, and the one inserted first did not.
C9_Witness ==
    /\ pc = "end_hour"
    /\ Len(household.appliances) = 2
    /\ generation + battery_charge = 800
    /\ \A i \in 1..2 :
          /\ household.appliances[i].power = 500
          /\ EligibleNow(household.appliances[i])
    /\ order = <<2, 1>>
    /\ appliances_running = <<household.appliances[2].name>>
    /\ household.appliances[1].name # household.appliances[2].name
    /\ get_daily_runtime(household.appliances[1], day) = 0
    /\ household.appliances[1].min_runtime > 0
    /\ available_power = 300

\* C10: within each hour the appliances are considered in ascending order of
\* their priority label string, "High" before "Low" before "Medium", equal
\* labels in insertion order: the list the loop walks is so ordered and holds
\* every appliance once, and each step considers the next entry of it.
C10_ConsideredInLabelOrder ==
    /\ [](pc \in {"appliance", "end_hour"} =>
            /\ Len(order) = Len(household.appliances)
            /\ \A i \in 1..Len(household.appliances) : \E k \in 1..Len(order) : order[k] = i
            /\ \A k \in 1..Len(order) : \A l \in 1..Len(order) :
                  k < l =>
                      LET p == LabelRank(household.appliances[order[k]].priority)
                          q == LabelRank(household.appliances[order[l]].priority)
                      IN  p < q \/ (p = q /\ order[k] < order[l]))
    /\ [][ pc = "appliance" =>
             /\ idx' = idx + 1
             /\ order' = order
             /\ \A j \in 1..Len(household.appliances) :
                   household'.appliances[j] # household.appliances[j] => j = order[idx] ]_vars

\* C10 witness: a "Low" appliance inserted after a "Medium" one has been
\* considered first, and the "Medium" one is next.
C10_Witness ==
    /\ pc = "appliance" /\ idx = 2
    /\ order = <<2, 1>>
    /\ household.appliances[1].priority = "Medium"
    /\ household.appliances[2].priority = "Low"

\* the logical level of a priority label: High above Medium above Low
PriorityLevel(p) ==
    CASE p = "High" -> 2 [] p = "Medium" -> 1 [] p = "Low" -> 0

\* inside its window and under its runtime budget in the current hour
EligibleUnderBudget(a) ==
    EligibleNow(a) /\ get_daily_runtime(a, day) < a.min_runtime

\* C11 as stated: appliances are considered in the order High before Medium
\* before Low.  When the appliance under consideration and one that the loop
\* reaches later are both inside their window and under their budget and the
\* available power covers either but not both, the later one is not of a
\* higher priority level.
C11_HigherPriorityOfferedFirst ==
    pc = "appliance" =>
        LET a == household.appliances[order[idx]]
        IN  \A k \in (idx + 1)..Len(order) :
                LET b == household.appliances[order[k]]
                IN  ( /\ EligibleUnderBudget(a) /\ EligibleUnderBudget(b)
                      /\ available_power >= a.power
                      /\ available_power >= b.power
                      /\ available_power < a.power + b.power )
                    => PriorityLevel(b.priority) <= PriorityLevel(a.priority)

\* C12: run_simulation invoked while one of the four components is unset or
\* the appliance list is empty reports the error and returns before any
\* computation: no simulation starts, no record is produced, the stored
\* results are not replaced and the household (so every daily_runtime) is
\* unchanged.
C12_RunRejectedBeforeComputation ==
    [][ ( /\ RunSimulation
          /\ \/ household.solar_panel = None
             \/ household.battery = None
             \/ household.charge_controller = None
             \/ household.inverter = None
             \/ Len(household.appliances) = 0 )
        => /\ message' \in {"error_no_components", "error_no_appliances"}
           /\ pc' = "idle"
           /\ results' = results
           /\ simulation_results' = simulation_results
           /\ household' = household
           /\ UNCHANGED <<daysVars, hourVars>> ]_vars

\* C12 witness: run_simulation was rejected for the empty appliance list in a
\* household with all four components, and the records stored by an earlier
\* simulation are still there.
C12_Witness ==
    /\ pc = "idle"
    /\ message = "error_no_appliances"
    /\ household.appliances = <<>>
    /\ household.inverter # None
    /\ Len(simulation_results) > 0

\* C13 as stated: when set_components reports the error for a text that is not
\* a number, all four components keep the values they had before the call.
C13_SetComponentsUnchangedOnError ==
    [][ (SetComponents /\ message' = "error_components")
        => /\ household'.solar_panel = household.solar_panel
           /\ household'.battery = household.battery
           /\ household'.charge_controller = household.charge_controller
           /\ household'.inverter = household.inverter ]_vars

\* C14: add_appliance invoked with a power text or a min_runtime text that is
\* not a number reports the error and leaves the household's appliance list,
\* the displayed list and the total power consumption unchanged.
C14_AddApplianceUnchangedOnError ==
    [][ \A in \in ApplianceInputs :
          (add_appliance(in) /\ ~(in.power.ok /\ in.min_runtime.ok))
          => /\ message' = "error_appliance"
             /\ household'.appliances = household.appliances
             /\ household' = household
             /\ appliance_list' = appliance_list
             /\ total_power_consumption(household')
                    = total_power_consumption(household) ]_vars

\* C14 witness: the error was reported while the household held one appliance
\* of 500 W, which is still its only one.
C14_Witness ==
    /\ message = "error_appliance"
    /\ Len(household.appliances) = 1
    /\ Len(appliance_list) = 1
    /\ total_power_consumption(household) = 500

\* C15 as stated: whenever load_configuration reports that it failed, the
\* household is the one it was before, with the same field values.
C15_FailedLoadLeavesHousehold ==
    [][ (LoadConfiguration /\ message' = "error_load")
        => household' = household ]_vars

\* no appliance of a configuration record has the key daily_runtime
NoDailyRuntime(data) ==
    /\ "daily_runtime" \notin DOMAIN data
    /\ \A i \in 1..Len(data.appliances) :
          "daily_runtime" \notin DOMAIN data.appliances[i]

\* C16: for every valid configuration record x, from_dict(x).to_dict() equals
\* x: the household that load_configuration builds from a valid file
\* serializes to the content of the file, and so does from_dict of any valid
\* file content, and every HH:mm text of a time of day is parsed and
\* formatted back to itself.  to_dict never contains daily_runtime, whatever
\* the runtime counters of the household hold, and what save_configuration
\* writes is to_dict of the household.
C16_CodecRoundTrip ==
    /\ [](/\ (file \in ValidRecords =>
                 SolarHousehold_to_dict(SolarHousehold_from_dict(file)) = file)
          /\ NoDailyRuntime(SolarHousehold_to_dict(household))
          /\ (ops = 0 =>
                 \A h \in 0..23 : \A m \in 0..59 :
                     LET text == <<h \div 10, h % 10, m \div 10, m % 10>>
                     IN  /\ fromString(text) = QTime(h, m)
                         /\ toString(fromString(text)) = text))
    /\ [][ /\ (LoadConfiguration /\ file \in ValidRecords) =>
                 SolarHousehold_to_dict(household') = file
           /\ SaveConfiguration =>
                 (file' = SolarHousehold_to_dict(household) /\ NoDailyRuntime(file')) ]_vars

\* C16 witness: a valid record with two appliances was loaded and simulated,
\* an appliance ran, and the configuration saved afterwards is the record.
C16_Witness ==
    /\ message = "saved"
    /\ file \in ValidRecords
    /\ Len(file.appliances) = 2
    /\ file = SolarHousehold_to_dict(household)
    /\ \E i \in 1..Len(household.appliances) :
          get_daily_runtime(household.appliances[i], 0) > 0

\* C17 as stated: a configuration that save_configuration has just written is
\* read back by load_configuration without an error, and the household then
\* holds the saved fields.
C17_SavedConfigurationLoads ==
    [][ (message = "saved" /\ LoadConfiguration)
        => /\ message' = "loaded"
           /\ SolarHousehold_to_dict(household') = file ]_vars

\* the household with the runtime counters of a new Appliance: its
\* configuration alone
Configuration(h) ==
    [h EXCEPT !.appliances =
        [i \in 1..Len(h.appliances) |-> [h.appliances[i] EXCEPT !.daily_runtime = <<>>]]]

\* C18: the result sequence of a run is a function of the household
\* configuration and num_days alone: what simulate_days returns is what it
\* returns on a household of the same configuration whose appliances are new
\* (empty daily_runtime), starting from battery.capacity, whatever the counters
\* held before the run and whatever charge an earlier run ended with.
C18_ResultsFunctionOfConfiguration ==
    pc = "return" =>
        results = simulate_days(Configuration(household), num_days).results

\* C18 witness: a second three-day run is about to return; the first one, whose
\* records are stored, ran an appliance on day 0 and ended below the battery
\* capacity, and the second run's records are the same.
C18_Witness ==
    /\ pc = "return"
    /\ num_days = NumDays
    /\ Len(simulation_results) = NumDays * HoursPerDay
    /\ \E k \in 1..HoursPerDay : simulation_results[k].appliances_running # <<>>
    /\ simulation_results[Len(simulation_results)].battery_charge
           < household.battery.capacity
    /\ results = simulation_results

\* fully configured households over the form inputs
RunnableHouseholds ==
    LET good == { ApplianceOf(in) : in \in { x \in ApplianceInputs : NumbersOk(x) } }
        lists == UNION { [1..n -> good] : n \in 1..MaxAppliances }
    IN  { [set_components(SolarHousehold, texts) EXCEPT !.appliances = l] :
            texts \in { t \in ComponentInputs : LeadingOk(t, 1) = 4 }, l \in lists }

\* the households on which repeated runs are compared: those over the form
\* inputs and the current one, if run_simulation accepts it
ComparedHouseholds ==
    RunnableHouseholds \cup
        (IF ComponentsSet(household) /\ Len(household.appliances) > 0
         THEN {household} ELSE {})

\* C19 as stated: there is a configuration for which a second run on the
\* unmodified household, its runtime counters left as the first run left
\* them, returns a result sequence different from the first run's.
C19_RepeatedRunsDiffer ==
    \E hh \in ComparedHouseholds :
        \E first \in {simulate_days(hh, NumDays)} :
            simulate_days([hh EXCEPT !.appliances = first.appliances], NumDays).results
                # first.results

\* C19 amended: a run repeated on the unmodified household, with the runtime
\* counters left as the run left them, returns the same result sequence and
\* leaves the same counters: every counter that a run reads was reset at the
\* start of its day.
C19_RepeatedRunsAgree ==
    pc = "return" =>
        LET again == simulate_days(household, num_days)
        IN  /\ again.results = results
            /\ again.appliances = household.appliances

\* C19 witness: a run is about to return that left an appliance at its
\* min_runtime on every day, so the counters a repeated run starts from are at
\* the budget.
C19_Witness ==
    /\ pc = "return"
    /\ num_days = NumDays
    /\ \E i \in 1..Len(household.appliances) :
          /\ household.appliances[i].min_runtime > 0
          /\ \A d \in 0..(NumDays - 1) :
                get_daily_runtime(household.appliances[i], d)
                    = household.appliances[i].min_runtime

\* C20: total_power_consumption() is the sum of the power ratings of the
\* appliances currently in the household: 0 for the empty list, the rating
\* of the only appliance, the sum of the two ratings of a list of two; a
\* successful add_appliance raises it by the new rating, remove_appliance
\* lowers it by the rating of the removed appliance, and no step of a
\* simulation changes it.
C20_TotalPowerIsSumOfRatings ==
    /\ [](LET apps == household.appliances
              total == total_power_consumption(household)
          IN  /\ (Len(apps) = 0 => total = 0)
              /\ (Len(apps) = 1 => total = apps[1].power)
              /\ (Len(apps) = 2 => total = apps[1].power + apps[2].power))
    /\ [][ /\ \A in \in ApplianceInputs :
                (add_appliance(in) /\ in.power.ok /\ in.min_runtime.ok) =>
                    total_power_consumption(household')
                        = total_power_consumption(household) + in.power.val
           /\ \A row \in 1..Len(household.appliances) :
                remove_appliance(row) =>
                    total_power_consumption(household')
                        = total_power_consumption(household) - household.appliances[row].power
           /\ (RunSimulation \/ SimulateDays \/ SimStep) =>
                total_power_consumption(household')
                    = total_power_consumption(household) ]_vars

\* C20 witness: a simulation of a household with the appliances of 500 W and
\* 800 W is about to return, an appliance has run in it, and the total is 1300.
C20_Witness ==
    /\ pc = "return"
    /\ Len(household.appliances) = 2
    /\ household.appliances[1].power = 500
    /\ household.appliances[2].power = 800
    /\ total_power_consumption(household) = 1300
    /\ \E k \in 1..Len(results) : results[k].appliances_running # <<>>

(***************************************************************************)
(* C21                                                                     *)
(***************************************************************************)
\* the household with the fields the engine is claimed not to read set to
\* fixed values, and new appliances
WithoutSettings(h) ==
    [Configuration(h) EXCEPT
        !.sunrise = QTime(0, 0), !.sunset = QTime(0, 0), !.system_voltage = 0,
        !.charge_controller = SolarComponent("Charge Controller", 0),
        !.inverter = SolarComponent("Inverter", 0)]

\* C21: the result sequence does not depend on sunrise, sunset,
\* system_voltage or the capacities of the charge controller and the
\* inverter: what a run returns is what simulate_days returns on the
\* household with those five fields replaced by fixed values, so two
\* households that differ only in them return identical sequences.
C21_ResultsIgnoreSettings ==
    pc = "return" =>
        results = simulate_days(WithoutSettings(household), num_days).results

\* C21 witness: a run returns on a household whose sunrise, sunset and
\* voltage were changed, whose inverter (300) is below the power of every
\* appliance and whose charge controller is 5, and appliances ran.
C21_Witness ==
    /\ pc = "return"
    /\ household.sunrise = QTime(9, 30)
    /\ household.sunset = QTime(17, 15)
    /\ household.system_voltage = 24
    /\ household.inverter.capacity = 300
    /\ household.charge_controller.capacity = 5
    /\ Len(results) = NumDays * HoursPerDay
    /\ \E k \in 1..Len(results) :
          /\ results[k].generation > household.inverter.capacity
          /\ results[k].appliances_running # <<>>

(***************************************************************************)
(* C22                                                                     *)
(***************************************************************************)
\* the charge the next hour must start from: the capacity before the first
\* record, the charge of the last record afterwards
ChargeIn ==
    IF results = <<>> THEN household.battery.capacity
    ELSE results[Len(results)].battery_charge

\* C22: the charge is threaded through the whole run.  While simulate_days
\* runs, the charge it carries is battery.capacity before the first record
\* and the battery_charge of the last record afterwards, also at the reset
\* and at hour 0 of a later day; and the budget an hour works with is that
\* hour's generation plus this charge (available_power and power_used always
\* add up to it).
C22_ChargeThreaded ==
    /\ pc \in {"reset", "hour", "appliance", "end_hour"} =>
          /\ battery_charge = ChargeIn
          /\ Len(results) = day * HoursPerDay + hour
    /\ pc \in {"appliance", "end_hour"} =>
          /\ generation = Generation(household.solar_panel.capacity, hour)
          /\ available_power + power_used = generation + ChargeIn

\* C22 witness: hour 0 of day 1 is about to start from the charge hour 23 of
\* day 0 ended with, which is below the battery capacity.
C22_Witness ==
    /\ pc = "hour"
    /\ day = 1 /\ hour = 0
    /\ Len(results) = HoursPerDay
    /\ battery_charge = results[HoursPerDay].battery_charge
    /\ battery_charge < household.battery.capacity

(***************************************************************************)
(* C23                                                                     *)
(***************************************************************************)
\* the charge record k started from
ChargeBefore(k) ==
    IF k = 1 THEN household.battery.capacity ELSE results[k - 1].battery_charge

\* C23: energy balance of every hour.  The newest record (every record is
\* the newest one in the state after its hour) has
\* battery_charge = min(battery_charge_in + generation - power_used,
\* battery capacity).
C23_EnergyBalance ==
    results # <<>> =>
        LET k == Len(results)
            r == results[k]
        IN  r.battery_charge =
                Min(ChargeBefore(k) + r.generation - r.power_used,
                    household.battery.capacity)

\* C23 witness: a run returns with a record whose hour used power and ended
\* below the capacity, and a record whose excess over the capacity was lost.
C23_Witness ==
    /\ pc = "return"
    /\ \E k \in 1..Len(results) :
          /\ results[k].power_used > 0
          /\ results[k].generation > 0
          /\ results[k].battery_charge < household.battery.capacity
    /\ \E k \in 1..Len(results) :
          /\ ChargeBefore(k) + results[k].generation - results[k].power_used
                 > household.battery.capacity
          /\ results[k].battery_charge = household.battery.capacity

(***************************************************************************)
(* C24                                                                     *)
(***************************************************************************)
\* the appliances at the positions J of the iteration order, up to position
\* k, in iteration order
RECURSIVE Picked(_, _)
Picked(J, k) ==
    IF k = 0 THEN <<>>
    ELSE Picked(J, k - 1) \o
         (IF k \in J THEN <<household.appliances[order[k]]>> ELSE <<>>)

RECURSIVE PowerOf(_)
PowerOf(apps) ==
    IF apps = <<>> THEN 0 ELSE apps[1].power + PowerOf(Tail(apps))

NamesOf(apps) == [k \in 1..Len(apps) |-> apps[k].name]

\* the loop body is about to admit order[idx]: add_runtime is called on it
AdmitsNow ==
    /\ pc = "appliance"
    /\ InWindow(QTimeHour(household.appliances[order[idx]].start_time),
                QTimeHour(household.appliances[order[idx]].end_time), hour)
    /\ CanAdmit(household.appliances[order[idx]], available_power, day)

\* C24: power_used is the sum of the power ratings of exactly the appliances
\* admitted in the hour and appliances_running lists their names in the
\* order of admission, each once.  An admission (the step that calls
\* add_runtime) adds the appliance's power and appends its name; a pass of
\* the loop that does not admit changes neither, nor any counter; the hour
\* starts with 0 and the empty list; so at every point of the loop the two
\* locals are the sum and the names over one set of positions already
\* passed, and the record holds the locals the loop ended with.
C24_PowerUsedAndNames ==
    /\ [](pc \in {"appliance", "end_hour"} =>
            \E J \in SUBSET (1..(idx - 1)) :
                /\ appliances_running = NamesOf(Picked(J, idx - 1))
                /\ power_used = PowerOf(Picked(J, idx - 1)))
    /\ [][ /\ pc = "hour" => power_used' = 0 /\ appliances_running' = <<>>
           /\ AdmitsNow =>
                 /\ power_used' = power_used + household.appliances[order[idx]].power
                 /\ appliances_running' =
                        Append(appliances_running, household.appliances[order[idx]].name)
                 /\ get_daily_runtime(household'.appliances[order[idx]], day)
                        = get_daily_runtime(household.appliances[order[idx]], day) + 1
           /\ (pc = "appliance" /\ ~AdmitsNow) =>
                 UNCHANGED <<power_used, appliances_running, household>>
           /\ pc = "end_hour" =>
                 /\ results'[Len(results')].power_used = power_used
                 /\ results'[Len(results')].appliances_running = appliances_running
         ]_vars

\* C24 witness: an hour ends in which two appliances with different names
\* were admitted, the second of the list first.
C24_Witness ==
    /\ pc = "end_hour"
    /\ Len(appliances_running) = 2
    /\ appliances_running[1] # appliances_running[2]
    /\ order = <<2, 1>>
    /\ appliances_running = <<household.appliances[2].name, household.appliances[1].name>>
    /\ power_used = household.appliances[1].power + household.appliances[2].power
    /\ power_used > 0

(***************************************************************************)
(* C25                                                                     *)
(***************************************************************************)
Days == 0..(NumDays - 1)

Max(x, y) == IF x >= y THEN x ELSE y

\* what a pass of the loop may do to the runtime counters: nothing, or add
\* one hour to the counter of order[idx] for the current day, and that only
\* from below min_runtime; no other step but the reset touches a counter
IncrementOnlyBelowBudget ==
    /\ pc = "appliance" =>
          \A i \in 1..Len(household.appliances) : \A d \in Days :
              LET before == get_daily_runtime(household.appliances[i], d)
                  after  == get_daily_runtime(household'.appliances[i], d)
              IN  after # before =>
                      /\ i = order[idx] /\ d = day
                      /\ after = before + 1
                      /\ before < household.appliances[i].min_runtime
    /\ (pc = "appliance"
          /\ get_daily_runtime(household.appliances[order[idx]], day)
                 >= household.appliances[order[idx]].min_runtime) =>
          UNCHANGED <<household, appliances_running, power_used, available_power>>
    /\ (pc = "appliance" /\ household.appliances[order[idx]].min_runtime <= 0) =>
          UNCHANGED <<household, appliances_running, power_used, available_power>>

\* C25 as stated: the counter of a day grows only from below min_runtime,
\* an appliance at or over its budget or with min_runtime <= 0 is not
\* admitted, and in every reachable state
\* get_daily_runtime(day) <= min_runtime (min_runtime being whole here, which
\* is also get_daily_runtime(day) < min_runtime + 1).
C25_RuntimeCutoff ==
    /\ [](\A i \in 1..Len(household.appliances) : \A d \in Days :
            get_daily_runtime(household.appliances[i], d)
                <= household.appliances[i].min_runtime)
    /\ [][IncrementOnlyBelowBudget]_vars

\* C25 amended: the same, with the bound on the counter
\* get_daily_runtime(day) <= max(min_runtime, 0): the counter of an appliance
\* with a negative min_runtime is 0, which is above its min_runtime.
C25_RuntimeCutoffFromZero ==
    /\ [](\A i \in 1..Len(household.appliances) : \A d \in Days :
            /\ get_daily_runtime(household.appliances[i], d)
                   <= Max(household.appliances[i].min_runtime, 0)
            /\ get_daily_runtime(household.appliances[i], d) >= 0)
    /\ [][IncrementOnlyBelowBudget]_vars

\* C25 witness: the loop is at an appliance inside its window whose counter
\* for the day has reached its min_runtime of 3 while the budget of the hour
\* covers its power, next to an appliance with a negative min_runtime, inside
\* its window as well, whose counters are 0.
C25_Witness ==
    /\ pc = "appliance"
    /\ LET a == household.appliances[order[idx]]
       IN  /\ a.min_runtime = 3
           /\ get_daily_runtime(a, day) = 3
           /\ available_power >= a.power
           /\ InWindow(QTimeHour(a.start_time), QTimeHour(a.end_time), hour)
    /\ \E i \in 1..Len(household.appliances) :
          LET n == household.appliances[i]
          IN  /\ n.min_runtime < 0
              /\ InWindow(QTimeHour(n.start_time), QTimeHour(n.end_time), hour)
              /\ \A d \in Days : get_daily_runtime(n, d) = 0
              /\ day \in DOMAIN n.daily_runtime

(***************************************************************************)
(* C26                                                                     *)
(***************************************************************************)
UniqueNames ==
    \A i, j \in 1..Len(household.appliances) :
        household.appliances[i].name = household.appliances[j].name => i = j

Range(seq) == { seq[k] : k \in 1..Len(seq) }

\* whether day d of the run in progress has begun (its reset has run)
Begun(d) ==
    \/ d < day
    \/ d = day /\ pc \in {"hour", "appliance", "end_hour"}

\* the number of hours of day d in which the appliance called name ran: the
\* records of day d that list it, and the hour in progress if it lists it
HoursRun(name, d) ==
    Cardinality({ k \in (d * HoursPerDay + 1)..Len(results) :
                    results[k].day = d /\ name \in Range(results[k].appliances_running) })
    + (IF d = day /\ name \in Range(appliances_running) THEN 1 ELSE 0)

\* C26: with unique appliance names, at every point of a run and for every
\* day d of the run that has begun, get_daily_runtime(d) of an appliance is
\* the number of records of day d that list it in appliances_running (the
\* hour in progress counting through its appliances_running, which its
\* record will hold); and a step taken while day d is simulated changes no
\* counter of another day.
C26_RuntimeCountsRecords ==
    /\ []((pc # "idle" /\ UniqueNames) =>
            \A i \in 1..Len(household.appliances) : \A d \in 0..day :
                Begun(d) =>
                    get_daily_runtime(household.appliances[i], d)
                        = HoursRun(household.appliances[i].name, d))
    /\ [][pc # "idle" =>
            \A i \in 1..Len(household.appliances) :
                LET before == household.appliances[i].daily_runtime
                    after  == household'.appliances[i].daily_runtime
                IN  /\ DOMAIN after = DOMAIN before \cup
                                        (IF pc \in {"reset", "appliance"} THEN {day} ELSE {})
                    /\ \A d \in DOMAIN before : d # day => after[d] = before[d]
         ]_vars

\* C26 witness: a three-day run returns on two appliances with different
\* names, one of which ran on day 0 only twice and the other four times, and
\* both ran on day 2.
C26_Witness ==
    /\ pc = "return"
    /\ num_days = NumDays
    /\ UniqueNames
    /\ Len(household.appliances) = 2
    /\ get_daily_runtime(household.appliances[1], 0) = 2
    /\ get_daily_runtime(household.appliances[2], 0) = 4
    /\ get_daily_runtime(household.appliances[1], 2) > 0
    /\ get_daily_runtime(household.appliances[2], 2) > 0
    /\ HoursRun(household.appliances[1].name, 0) = 2
    /\ HoursRun(household.appliances[2].name, 0) = 4

(***************************************************************************)
(* C27                                                                     *)
(***************************************************************************)
\* The appliance first in the iteration order was skipped in an earlier hour
\* of the current day for lack of power alone: that hour's record does not
\* list it although the hour was inside its window, its counter was below
\* min_runtime (the counter of a day never falls, and it is below now) and,
\* the appliance being considered first, the budget at its turn was the
\* hour's generation plus the charge the hour started from, less than its
\* power; and the end-of-hour charge of that hour is above that of the hour
\* before it.
SkippedEarlierForPowerAlone ==
    LET a == household.appliances[order[1]]
    IN  \E k \in 2..Len(results) :
            /\ results[k].day = day /\ results[k].hour < hour
            /\ results[k - 1].day = day
            /\ InWindow(QTimeHour(a.start_time), QTimeHour(a.end_time), results[k].hour)
            /\ get_daily_runtime(a, day) < a.min_runtime
            /\ results[k].generation + results[k - 1].battery_charge < a.power
            /\ a.name \notin Range(results[k].appliances_running)
            /\ results[k].battery_charge > results[k - 1].battery_charge

\* the run of the appliances c (800 W, Low, 22:00-11:00, min_runtime 2) and
\* b (500 W, Medium) with the panel of 1000 W and the battery of 800 Wh is
\* at hour 9 of day 0, at the first appliance of the iteration order
AtHourNineOfScarceRun ==
    /\ pc = "appliance" /\ day = 0 /\ hour = 9 /\ idx = 1
    /\ NamesOf(household.appliances) = <<"c", "b">>

\* C27: an appliance skipped for lack of power alone can be admitted in a
\* later hour of the same day.  In the run of c and b, c runs at hour 0 and
\* empties the battery, is skipped at hours 1 to 8 for lack of power alone
\* while the end-of-hour charge rises with the generation (100 Wh after
\* hour 7, 400 Wh after hour 8), and is admitted at hour 9.
C27_SkippedForPowerAdmittedLater ==
    AtHourNineOfScarceRun =>
        /\ SkippedEarlierForPowerAlone
        /\ AdmitsNow
        /\ household.appliances[order[1]].name = "c"
        /\ results[8].battery_charge = 100
        /\ results[9].battery_charge = 400
        /\ results[9].appliances_running = <<>>

\* C27 witness: the run is at hour 9 of day 0 and about to admit c, which
\* was skipped at hour 8 for lack of power alone.
C27_Witness ==
    /\ AtHourNineOfScarceRun
    /\ SkippedEarlierForPowerAlone
    /\ AdmitsNow

(***************************************************************************)
(* C28                                                                     *)
(***************************************************************************)
\* the appliance list is in ascending order of the priority labels, as
\* Python compares them
AscendingLabels(apps) ==
    \A i, j \in 1..Len(apps) :
        i < j => PriorityKey(apps[i].priority) <= PriorityKey(apps[j].priority)

\* C28: on one and the same household, main.py (simulate_day) and main_ux.py
\* (simulate_days(3)) return identical result sequences, both considering
\* the appliances in declaration order; and the sequence the
\* appliance-status variant returns equals theirs whenever the appliance
\* list is in ascending order of the priority labels, appliances of equal
\* priority keeping their declaration order.
C28_VariantsAgree ==
    pc = "return" =>
        LET hh == Configuration(household)
            ux == main_ux_simulate_days(hh, NumDays).results
        IN  /\ main_simulate_day(hh).results = ux
            /\ AscendingLabels(household.appliances) => results = ux

\* C28 witness: a run returns on the list g, a, both of priority High, for
\* which the order matters: at hour 8 of day 0 the budget covers one of the
\* two and g, declared first, got it.
C28_Witness ==
    /\ pc = "return"
    /\ NamesOf(household.appliances) = <<"g", "a">>
    /\ AscendingLabels(household.appliances)
    /\ results[9].hour = 8
    /\ results[9].appliances_running = <<"g">>
    /\ results = main_ux_simulate_days(Configuration(household), NumDays).results
    /\ results = main_simulate_day(Configuration(household)).results

(***************************************************************************)
(* C29                                                                     *)
(***************************************************************************)
\* the record at position i (counted from 0) has day i div 24, hour i mod 24
IndexedByDayAndHour(recs, i) ==
    /\ recs[i + 1].day = i \div HoursPerDay
    /\ recs[i + 1].hour = i % HoursPerDay

\* C29: the record at position i of the sequence has day = i div 24 and
\* hour = i mod 24.  It holds of the newest record in every state of a run
\* and of all records when simulate_days returns; and on the sequence that
\* simulate_day of main.py returns for the household, every dial value
\* 0..71 is a valid index and update_simulation_output shows under
\* "Day d+1, Hour h" the record of day d and hour h.
C29_RecordsIndexedByDayAndHour ==
    /\ results # <<>> => IndexedByDayAndHour(results, Len(results) - 1)
    /\ pc = "return" =>
          /\ Len(results) = num_days * HoursPerDay
          /\ \A i \in 0..(Len(results) - 1) : IndexedByDayAndHour(results, i)
    /\ (pc = "return" /\ num_days = NumDays) =>
          LET sr == main_simulate_day(Configuration(household)).results
          IN  /\ Len(sr) = DialMaximum + 1
              /\ \A value \in 0..DialMaximum :
                    LET out == update_simulation_output(sr, value)
                    IN  /\ out.result.day = out.day
                        /\ out.result.hour = out.hour
                        /\ IndexedByDayAndHour(sr, value)

\* C29 witness: a three-day run returns; its last record, at position 71, is
\* that of day 2, hour 23, and so is the record main.py shows for the dial
\* value 71; the record at position 24 is that of day 1, hour 0.
C29_Witness ==
    /\ pc = "return"
    /\ num_days = NumDays
    /\ Len(results) = 72
    /\ results[72].day = 2 /\ results[72].hour = 23
    /\ results[25].day = 1 /\ results[25].hour = 0
    /\ LET out == update_simulation_output(
                      main_simulate_day(Configuration(household)).results, DialMaximum)
       IN  out.day = 2 /\ out.hour = 23 /\ out.result.day = 2 /\ out.result.hour = 23

(***************************************************************************)
(* C30                                                                     *)
(***************************************************************************)
\* the capacities the engine reads and all appliance powers are >= 0
NonNegativeRatings ==
    /\ household.solar_panel # None => household.solar_panel.capacity >= 0
    /\ household.battery # None => household.battery.capacity >= 0
    /\ \A i \in 1..Len(household.appliances) : household.appliances[i].power >= 0

\* C30: the engine never overdraws.  With non-negative battery capacity,
\* panel capacity and appliance powers, the budget left in an hour never
\* falls below 0, and the newest record (every record is the newest one in
\* the state after its hour) has power_used <= generation +
\* battery_charge_in and battery_charge >= 0.
C30_NeverOverdraws ==
    NonNegativeRatings =>
        /\ pc \in {"appliance", "end_hour"} =>
              /\ available_power >= 0
              /\ power_used >= 0
              /\ power_used <= generation + battery_charge
        /\ pc # "idle" => battery_charge >= 0
        /\ results # <<>> =>
              LET k == Len(results)
              IN  /\ results[k].power_used <= results[k].generation + ChargeBefore(k)
                  /\ results[k].power_used >= 0
                  /\ results[k].battery_charge >= 0

\* C30 witness: a run returns with a record whose hour used its whole
\* budget, ending at charge 0, and a later record of an hour in which
\* an appliance inside its window and under its runtime budget did not run
\* because its power exceeds the budget.
C30_Witness ==
    /\ pc = "return"
    /\ NonNegativeRatings
    /\ \E k \in 1..Len(results) :
          /\ results[k].power_used > 0
          /\ results[k].power_used = results[k].generation + ChargeBefore(k)
          /\ results[k].battery_charge = 0
    /\ \E k \in 2..Len(results) : \E i \in 1..Len(household.appliances) :
          LET a == household.appliances[i]
              r == results[k]
          IN  /\ r.appliances_running = <<>>
              /\ InWindow(QTimeHour(a.start_time), QTimeHour(a.end_time), r.hour)
              /\ get_daily_runtime(a, r.day) < a.min_runtime
              /\ a.power > r.generation + results[k - 1].battery_charge

(***************************************************************************)
(* C31                                                                     *)
(***************************************************************************)
\* C31: a simulation run changes nothing in the household except the
\* daily_runtime counters of its appliances.  The step that starts a run and
\* every step of a run leave the components, sunrise, sunset and voltage,
\* the membership and order of household.appliances and every appliance's
\* name, power, priority, window and min_runtime as they were; the displayed
\* list and the file are left alone as well.
C31_RunChangesOnlyCounters ==
    [][ (pc # "idle" \/ pc' # "idle") =>
            /\ Configuration(household') = Configuration(household)
            /\ Len(household'.appliances) = Len(household.appliances)
            /\ UNCHANGED <<appliance_list, file>> ]_vars

\* C31 witness: a run returns on a household whose list is b, a, which the
\* priority sort iterates as a, b; both have run and the list is still b, a.
C31_Witness ==
    /\ pc = "return"
    /\ num_days = NumDays
    /\ NamesOf(household.appliances) = <<"b", "a">>
    /\ SortedByPriority(household.appliances) = <<2, 1>>
    /\ get_daily_runtime(household.appliances[1], 0) > 0
    /\ get_daily_runtime(household.appliances[2], 0) > 0
    /\ appliance_list = ItemTexts(household.appliances)

(***************************************************************************)
(* C32                                                                     *)
(***************************************************************************)
\* start and end time of the appliance have the same hour of day
SameHourWindow(a) == QTimeHour(a.start_time) = QTimeHour(a.end_time)

\* C32: an appliance whose start and end times have the same hour of day,
\* whatever their minutes, is eligible at no hour and never runs, on any
\* day, whatever power is available: the window test fails for it at every
\* hour, all its counters are 0, and neither the hour in progress nor the
\* newest record (every record is the newest one in the state after its
\* hour) lists it.
C32_SameHourWindowNeverRuns ==
    \A i \in 1..Len(household.appliances) :
        LET a == household.appliances[i]
        IN  SameHourWindow(a) =>
                /\ \A h \in Hours :
                      ~InWindow(QTimeHour(a.start_time), QTimeHour(a.end_time), h)
                /\ \A d \in Days : get_daily_runtime(a, d) = 0
                /\ a.name \notin Range(appliances_running)
                /\ results # <<>> =>
                      a.name \notin Range(results[Len(results)].appliances_running)

\* C32 witness: a three-day run returns on the appliance with the window
\* 09:10 to 09:50 and the appliance q; q ran at hour 9 of day 0, an hour
\* whose budget covered both, and the counters of the first are 0.
C32_Witness ==
    /\ pc = "return"
    /\ num_days = NumDays
    /\ NamesOf(household.appliances) = <<"s9", "q">>
    /\ household.appliances[1].start_time = QTime(9, 10)
    /\ household.appliances[1].end_time = QTime(9, 50)
    /\ results[10].hour = 9
    /\ results[10].appliances_running = <<"q">>
    /\ results[10].battery_charge >= household.appliances[1].power
    /\ get_daily_runtime(household.appliances[1], 0) = 0
    /\ 0 \in DOMAIN household.appliances[1].daily_runtime

(***************************************************************************)
(* C33                                                                     *)
(***************************************************************************)
\* the hours whose generation fraction is 0: absent from the table, or
\* present with 0 (hours 6 and 20)
ZeroGenerationHours == (0..6) \cup (20..23)

\* C33: with non-negative appliance powers, an hour without generation
\* (hours 0..6 and 20..23) never ends with a higher charge than it started
\* with, so the charge rises only in hours 7..19.  Stated of the newest
\* record (every record is the newest one in the state after its hour).
C33_ChargeRisesOnlyInDaylight ==
    (results # <<>> /\ NonNegativeRatings) =>
        LET k == Len(results)
            r == results[k]
        IN  /\ r.hour \in ZeroGenerationHours =>
                  /\ r.generation = 0
                  /\ r.battery_charge <= ChargeBefore(k)
            /\ r.battery_charge > ChargeBefore(k) => r.hour \in 7..19

\* C33 witness: a run returns with a record of an hour without generation
\* in which an appliance ran and the charge fell, records of an hour from
\* 20:00 on and of an hour before 07:00 that kept the charge (the latter
\* below the capacity), and a record of an hour between 7 and 19 in which
\* the charge rose.
C33_Witness ==
    /\ pc = "return"
    /\ NonNegativeRatings
    /\ \E k \in 2..Len(results) :
          /\ results[k].hour \in ZeroGenerationHours
          /\ results[k].power_used > 0
          /\ results[k].battery_charge < results[k - 1].battery_charge
    /\ \E k \in 2..Len(results) :
          /\ results[k].hour >= 20
          /\ results[k].battery_charge = results[k - 1].battery_charge
    /\ \E k \in 2..Len(results) :
          /\ results[k].hour <= 6
          /\ results[k - 1].battery_charge < household.battery.capacity
          /\ results[k].battery_charge = results[k - 1].battery_charge
    /\ \E k \in 2..Len(results) :
          /\ results[k].hour \in 7..19
          /\ results[k].battery_charge > results[k - 1].battery_charge

(***************************************************************************)
(* C34                                                                     *)
(***************************************************************************)
\* C34: after any sequence of add_appliance, remove_appliance and
\* load_configuration, successful or failed, the displayed list has the
\* length of household.appliances and row i is the text of appliances[i],
\* and remove_appliance on a selected row never indexes
\* household.appliances out of range.
C34_ListMatchesAppliances ==
    /\ appliance_list = ItemTexts(household.appliances)
    /\ message # "index_error"

====
